---- MODULE Spec2Model ----
(***************************************************************************)
(* ViscoCorrectCore: the correction factor engine (Calculator) and the     *)
(* cached, lock-guarded Project facade.                                     *)
(*                                                                         *)
(* SpecCalc    : Calculator::Calculate applied to bounded parameter sets.   *)
(* SpecProject : several threads calling the public methods of one Project. *)
(* SpecFit     : Calculator::FitToScale applied to the three scales.        *)
(* SpecString  : AccuracyType constructed from bounded strings.             *)
(* SpecCalcTwice : Calculator::Calculate called repeatedly with the same    *)
(*               arguments.                                                 *)
(* SpecAcc     : one AccuracyType operator applied to bounded operands.     *)
(* SpecViscosity : ConvertViscosityTomm2s of the AccuracyType build.        *)
(* SpecContext : CorrectionContext::Initialize called repeatedly.            *)
(* SpecMath    : LinearFunc and PolynomialFunc called on bounded arguments.  *)
(* SpecCopy    : several threads calling the methods of two Projects, copy-  *)
(*               assignment between them included.                          *)
(* SpecCopyFair : SpecCopy under fair scheduling, for the liveness of calls. *)
(***************************************************************************)
EXTENDS Integers, Sequences, FiniteSets, TLC

VARIABLES
    \* ---- Calculator (src/src/calculator.cpp) ----
    calc_p,        \* Parameters passed to Calculate
    calc_u,        \* Units passed to Calculate
    calc_out,      \* CorrectionFactors returned by the last call
    calc_pc,       \* "input" before the call, "returned" after it
    \* ---- Project (src/src/project.cpp) ----
    input_,        \* input_flowrate_, input_total_head_, input_viscosity_, input_density_cp_
    unit_,         \* flowrate_unit_, head_unit_, viscosity_unit_, density_unit_
    floating_point_precision_,
    name_,
    was_changed_,  \* std::array<bool, 4>
    was_computed_,
    has_error_,
    converted_input_,
    res_,
    writer,        \* thread inside an exclusive section of the shared_mutex, or NoThread
    pc,            \* per thread: position inside the method it is executing
    op,            \* per thread: the method being executed and its argument
    ret,           \* what the step just taken returned to its caller (NoRet if nothing)
    \* ---- history (not program state) ----
    version,       \* number of input mutations so far
    res_version,   \* version whose inputs res_ was computed from; -1: zeroed placeholder
    runs,          \* CalcImpl executions since the last input mutation
    \* ---- Calculator::FitToScale (src/src/calculator.cpp) ----
    fit_scale,     \* name of the scale passed as raw_scale
    fit_input,     \* the value passed as input
    fit_start,     \* the value passed as start_pos
    fit_out,       \* the double returned by the last call
    fit_pc,        \* "input" before the call, "returned" after it
    \* ---- AccuracyType(const std::string&) (src/src/accuracy_type.cpp) ----
    str_in,        \* the string passed to the constructor
    str_out,       \* the constructed AccuracyType
    str_pc,        \* "input" before the construction, "returned" after it
    \* ---- AccuracyType operators (src/src/accuracy_type.cpp) ----
    acc_a,         \* the left operand a before the operation
    acc_b,         \* the right operand b
    acc_op,        \* the operation that ran, "none" before it
    acc_unit,      \* the unit passed to a conversion, "none" otherwise
    acc_d_unit,    \* the density unit passed to ConvertViscosityTomm2s, or "none"
    acc_out,       \* a after a compound assignment, or the object returned
    acc_ret,        \* the bool returned by a comparison
    \* ---- CorrectionContext (src/src/correction_context.cpp) ----
    is_initialized_,   \* CorrectionContext::is_initialized_
    error_flag_,   \* CorrectionContext::error_flag_
    coefficients_,   \* first coefficient of q_, eta_ and the four h_coefficients_
    ctx_file,   \* utils/coefficients.csv as the last Initialize() found it (MissingFile before the first)
    ctx_read,   \* TRUE iff the last Initialize() ran ReadCoefficients
    ctx_ret,   \* what the last Initialize() returned, "none" before the first
    \* ---- LinearFunc, PolynomialFunc (src/include/spauly/vccore/impl/math.h) ----
    math_fn,   \* the function object: its kind and coeffs_
    math_point,   \* the point <<x0, y0>> a LinearFunc was constructed through
    math_arg,   \* the argument of the call
    math_op,   \* "call" for operator(), "SolveForX", "none" before the call
    math_out,   \* the value returned by the call
    \* ---- two Projects and operator= (src/src/project.cpp) ----
    cp_obj,   \* the two Project objects a and b: fields, cache flags and stored result
    cp_pc,   \* per thread: position inside the method it is executing
    cp_op,   \* per thread: the method, the object it is called on and the other object
    cp_ret   \* what the call that returned last handed to its caller

calc_vars == <<calc_p, calc_u, calc_out, calc_pc>>
proj_vars == <<input_, unit_, floating_point_precision_, name_, was_changed_,
               was_computed_, has_error_, converted_input_, res_, writer,
               pc, op, ret, version, res_version, runs>>
fit_vars == <<fit_scale, fit_input, fit_start, fit_out, fit_pc>>
str_vars == <<str_in, str_out, str_pc>>
acc_vars == <<acc_a, acc_b, acc_op, acc_unit, acc_d_unit, acc_out, acc_ret>>
ctx_vars == <<is_initialized_, error_flag_, coefficients_, ctx_file, ctx_read, ctx_ret>>
math_vars == <<math_fn, math_point, math_arg, math_op, math_out>>
copy_vars == <<cp_obj, cp_pc, cp_op, cp_ret>>
vars == <<calc_vars, proj_vars, fit_vars, str_vars, acc_vars, ctx_vars, math_vars, copy_vars>>

\* What each specification leaves alone.
outside_calc == <<proj_vars, fit_vars, str_vars, acc_vars, ctx_vars, math_vars, copy_vars>>
outside_proj == <<calc_vars, fit_vars, str_vars, acc_vars, ctx_vars, math_vars, copy_vars>>
outside_fit == <<calc_vars, proj_vars, str_vars, acc_vars, ctx_vars, math_vars, copy_vars>>
outside_str == <<calc_vars, proj_vars, fit_vars, acc_vars, ctx_vars, math_vars, copy_vars>>
outside_acc == <<calc_vars, proj_vars, fit_vars, str_vars, ctx_vars, math_vars, copy_vars>>
outside_ctx == <<calc_vars, proj_vars, fit_vars, str_vars, acc_vars, math_vars, copy_vars>>
outside_math == <<calc_vars, proj_vars, fit_vars, str_vars, acc_vars, ctx_vars, copy_vars>>
outside_copy == <<calc_vars, proj_vars, fit_vars, str_vars, acc_vars, ctx_vars, math_vars>>

-----------------------------------------------------------------------------
(* DoubleT = double. A double is modelled as an exact fraction <<n, d>> in  *)
(* lowest terms with d > 0; <<0, 0>> is NaN, which compares false with      *)
(* everything and is absorbing under arithmetic.                            *)

NaN == <<0, 0>>

IsNaN(a) == a[2] = 0

Abs(n) == IF n < 0 THEN -n ELSE n

RECURSIVE GCD(_, _)
GCD(a, b) == IF b = 0 THEN a ELSE GCD(b, a % b)

Norm(n, d) ==
    IF d = 0 THEN NaN
    ELSE LET g == GCD(Abs(n), Abs(d))
             s == IF d < 0 THEN -1 ELSE 1
         IN <<s * (n \div g), s * (d \div g)>>

Num(n) == <<n, 1>>

Frac(n, d) == Norm(n, d)

Add(a, b) == IF IsNaN(a) \/ IsNaN(b) THEN NaN
             ELSE Norm(a[1] * b[2] + b[1] * a[2], a[2] * b[2])

Sub(a, b) == IF IsNaN(a) \/ IsNaN(b) THEN NaN
             ELSE Norm(a[1] * b[2] - b[1] * a[2], a[2] * b[2])

Mul(a, b) == IF IsNaN(a) \/ IsNaN(b) THEN NaN
             ELSE Norm(a[1] * b[1], a[2] * b[2])

\* x / 0 is +-inf or NaN in IEEE arithmetic; every division of the program is
\* guarded against a zero divisor, so the one non-number value NaN stands for it.
Div(a, b) == IF IsNaN(a) \/ IsNaN(b) THEN NaN
             ELSE Norm(a[1] * b[2], a[2] * b[1])

Lt(a, b) == ~IsNaN(a) /\ ~IsNaN(b) /\ a[1] * b[2] < b[1] * a[2]

Gt(a, b) == Lt(b, a)

Eq(a, b) == ~IsNaN(a) /\ ~IsNaN(b) /\ a = b

Ne(a, b) == ~Eq(a, b)

-----------------------------------------------------------------------------
(* Units and conversion (data.h, impl/conversion_functions.h).              *)

FlowrateUnit == {"kCubicMetersPerHour", "kLitersPerMinute", "kGallonsPerMinute"}
HeadUnit == {"kMeters", "kFeet"}
ViscosityUnit == {"kSquareMilPerSecond", "kcSt", "kcP", "kmPas"}
DensityUnit == {"kGramPerLiter", "kKilogramsPerCubicMeter"}

kStandardFlowrateUnit == "kCubicMetersPerHour"
kStandardHeadUnit == "kMeters"
kStandardViscosityUnit == "kSquareMilPerSecond"
kStandardDensityUnit == "kGramPerLiter"

kStandardUnits == [flowrate |-> kStandardFlowrateUnit, total_head |-> kStandardHeadUnit,
                   viscosity |-> kStandardViscosityUnit, density |-> kStandardDensityUnit]

kFlowrateToCubicMPH(u) ==
    CASE u = "kLitersPerMinute" -> Frac(6, 100)
      [] u = "kGallonsPerMinute" -> Frac(227125, 1000000)
      [] u = "kCubicMetersPerHour" -> Num(1)

kHeadToMeters(u) ==
    CASE u = "kFeet" -> Frac(3048, 10000)
      [] u = "kMeters" -> Num(1)

kDensityToGPL(u) ==
    CASE u = "kGramPerLiter" -> Num(1)
      [] u = "kKilogramsPerCubicMeter" -> Frac(1, 1000)

ConvertFlowrateToBaseUnit(value, from) == Mul(value, kFlowrateToCubicMPH(from))

ConvertHeadToBaseUnit(value, from) == Mul(value, kHeadToMeters(from))

ConvertDensityToBaseUnit(value, from) == Mul(value, kDensityToGPL(from))

ConvertViscosityTomm2s(value, from, density, d_unit) ==
    IF from \in {"kcP", "kmPas"}
    THEN IF Ne(density, Num(0))
         THEN Div(value, Mul(density, kDensityToGPL(d_unit)))
         ELSE Num(0)
    ELSE value

-----------------------------------------------------------------------------
(* Calculator (calculator.h, calculator.cpp).                               *)

\* A correction factor is kept together with where it comes from: "const" (a
\* literal), "indet" (storage that was never written) or the curve function of the
\* evaluation stage that produced it, taken at position `at`.
Const(r) == [fn |-> "const", at |-> r]

Indeterminate == [fn |-> "indet", at |-> Num(0)]

CurveAt(name, x) == [fn |-> name, at |-> x]

\* What reading a never-written double can give: zero bits, or anything else.
IndetDoubles == {Const(Num(0)), Indeterminate}

IndetH == [1..4 -> IndetDoubles]

ZeroH == [i \in 1..4 |-> Const(Num(0))]

kNoError == 0
kFlowrateError == 1
kTotalHeadError == 2
kViscosityError == 4

RECURSIVE BitAnd(_, _)
BitAnd(a, b) == IF a = 0 \/ b = 0 THEN 0
                ELSE (a % 2) * (b % 2) + 2 * BitAnd(a \div 2, b \div 2)

RECURSIVE BitOr(_, _)
BitOr(a, b) == IF a = 0 /\ b = 0 THEN 0
               ELSE (IF a % 2 = 1 \/ b % 2 = 1 THEN 1 ELSE 0)
                    + 2 * BitOr(a \div 2, b \div 2)

kStartTotalH == <<4, 1>>
kStartVisco == <<105, 304>>
kPitchTotalH == Frac(113, 215)
kPitchVisco == Frac(-21, 11)

kFlowrateScale ==
    << <<6, 0>>, <<7, 14>>, <<8, 9>>, <<9, 9>>, <<10, 9>>, <<15, 30>>,
       <<20, 21>>, <<30, 30>>, <<40, 21>>, <<50, 17>>, <<60, 13>>, <<70, 12>>,
       <<80, 9>>, <<90, 9>>, <<100, 9>>, <<150, 30>>, <<200, 21>>, <<300, 30>>,
       <<400, 21>>, <<500, 17>>, <<600, 14>>, <<700, 11>>, <<800, 10>>, <<900, 8>>,
       <<1000, 8>>, <<1500, 30>>, <<2000, 22>> >>

kTotalHeadScale ==
    << <<5, 0>>, <<10, 15>>, <<20, 12>>, <<40, 14>>, <<50, 8>>, <<100, 9>>, <<200, 13>> >>

kViscoScale ==
    << <<10, 0>>, <<20, 27>>, <<30, 16>>, <<40, 10>>, <<60, 15>>, <<80, 11>>,
       <<100, 8>>, <<200, 26>>, <<300, 16>>, <<400, 11>>, <<500, 8>>, <<600, 6>>,
       <<800, 12>>, <<1000, 9>>, <<2000, 26>>, <<3000, 14>>, <<4000, 10>> >>

GetConverted(p, u) ==
    [flowrate |-> ConvertFlowrateToBaseUnit(p.flowrate, u.flowrate),
     total_head |-> ConvertHeadToBaseUnit(p.total_head, u.total_head),
     viscosity |-> ConvertViscosityTomm2s(p.viscosity, u.viscosity, p.density, u.density),
     density |-> ConvertDensityToBaseUnit(p.density, u.density)]

ValidateInput(p) ==
    LET e1 == IF Lt(p.flowrate, Num(6)) \/ Gt(p.flowrate, Num(2000))
              THEN BitOr(0, kFlowrateError) ELSE 0
        e2 == IF Lt(p.total_head, Num(5)) \/ Gt(p.total_head, Num(200))
              THEN BitOr(e1, kTotalHeadError) ELSE e1
        e3 == IF Lt(p.viscosity, Num(10)) \/ Gt(p.viscosity, Num(4000))
              THEN BitOr(e2, kViscosityError) ELSE e2
    IN e3

\* The loop of FitToScale from entry i on: absolute_position and prev_value are
\* the loop's running values; falling off the end is bfound = false.
RECURSIVE FitWalk(_, _, _, _, _)
FitWalk(raw_scale, i, input, absolute_position, prev_value) ==
    IF i > Len(raw_scale) THEN Num(-1)
    ELSE LET curr_value == Num(raw_scale[i][1])
             distpixels == Num(raw_scale[i][2])
         IN IF Eq(curr_value, input) THEN Add(absolute_position, distpixels)
            ELSE IF Gt(curr_value, input)
            THEN Add(absolute_position,
                     Mul(Div(Sub(input, prev_value), Sub(curr_value, prev_value)),
                         distpixels))
            ELSE FitWalk(raw_scale, i + 1, input,
                         Add(absolute_position, distpixels), curr_value)

\* A faulty variant of FitToScale that starts the walk at 0 whatever start_pos is;
\* it is used to probe that the reference walk property depends on start_pos.
FitToScaleFromZero(raw_scale, input, start_pos) ==
    FitWalk(raw_scale, 1, input, Num(0), Num(0))

\* A faulty variant of FitToScale that does not interpolate: a value between two
\* breakpoints gets the position of the breakpoint below it.
RECURSIVE FitWalkNoInterpolation(_, _, _, _)
FitWalkNoInterpolation(raw_scale, i, input, absolute_position) ==
    IF i > Len(raw_scale) THEN Num(-1)
    ELSE IF Eq(Num(raw_scale[i][1]), input)
         THEN Add(absolute_position, Num(raw_scale[i][2]))
         ELSE IF Gt(Num(raw_scale[i][1]), input) THEN absolute_position
         ELSE FitWalkNoInterpolation(raw_scale, i + 1, input,
                                     Add(absolute_position, Num(raw_scale[i][2])))

FitToScaleNoInterpolation(raw_scale, input, start_pos) ==
    FitWalkNoInterpolation(raw_scale, 1, input, Num(start_pos))

FitToScale(raw_scale, input, start_pos) ==
    FitWalk(raw_scale, 1, input, Num(start_pos), Num(0))

\* The line of pitch m whose constant term is the y of the point.
LinearFuncFlat(m, x, y) == <<m, y>>

\* LinearFunc(m, x, y): coefficients <<m, y - m * x>>.
LinearFunc(m, x, y) == <<m, Sub(y, Mul(m, x))>>

LinearEval(f, x) == Add(Mul(f[1], x), f[2])

SolveForX(f, y) == IF Eq(f[1], Num(0)) THEN Num(0) ELSE Div(Sub(y, f[2]), f[1])

\* The x position on the correction scale: the intersection of the two lines.
PosMain(p_base) ==
    LET flow_pos == FitToScale(kFlowrateScale, p_base.flowrate, 0)
        head_pos == FitToScale(kTotalHeadScale, p_base.total_head, kStartTotalH[2])
        visc_pos == FitToScale(kViscoScale, p_base.viscosity, kStartVisco[1])
        head_func == LinearFunc(kPitchTotalH, Num(kStartTotalH[1]), head_pos)
        visc_func == LinearFunc(kPitchVisco, visc_pos, Num(kStartVisco[2]))
    IN SolveForX(visc_func, LinearEval(head_func, flow_pos))

\* The curve evaluation stage at pos_main: q, eta and the four h entries.
EvaluateCurves(pos_main) ==
    [q |-> CurveAt("q", pos_main), eta |-> CurveAt("eta", pos_main),
     h |-> [i \in 1..4 |-> CurveAt(<<"h_06", "h_08", "h_10", "h_12">>[i], pos_main)]]

\* `CorrectionFactors out;` of data.h: q and eta are initialised to 0, h is not
\* (indet stands for what its storage holds). stages lists the stages that ran.
Calculate(p, u, indet) ==
    LET p_base == IF u # kStandardUnits THEN GetConverted(p, u) ELSE p
        error_flag == ValidateInput(p_base)
    IN IF BitAnd(error_flag, kNoError) = 0
       THEN [q |-> Const(Num(0)), eta |-> Const(Num(0)), h |-> indet,
             error_flag |-> error_flag, stages |-> <<"validate">>]
       ELSE LET c == EvaluateCurves(PosMain(p_base))
            IN [q |-> c.q, eta |-> c.eta, h |-> c.h, error_flag |-> error_flag,
                stages |-> <<"validate", "map", "intersect", "evaluate">>]

-----------------------------------------------------------------------------
(* Calculator: the parameter sets it is called with.                        *)

FlowInputs == {Num(5), Num(6), Num(100), Num(2000), Num(2001), NaN}
HeadInputs == {Num(4), Num(5), Num(100), Num(200), Num(201), NaN}
ViscoInputs == {Num(9), Num(10), Num(100), Num(4000), Num(4001), NaN}
DensityInputs == {Num(0), Num(4)}

ParameterSets == [flowrate : FlowInputs, total_head : HeadInputs,
                  viscosity : ViscoInputs, density : DensityInputs]

UnitSets == [flowrate : FlowrateUnit, total_head : HeadUnit,
             viscosity : ViscosityUnit, density : DensityUnit]

NoCall == [q |-> Const(Num(0)), eta |-> Const(Num(0)), h |-> ZeroH,
           error_flag |-> 0, stages |-> <<>>]

CalcInit ==
    /\ calc_p \in ParameterSets
    /\ calc_u \in UnitSets
    /\ calc_out = NoCall
    /\ calc_pc = "input"

\* A caller invokes Calculate(p, u) and receives the returned CorrectionFactors.
CalcCalculate ==
    /\ calc_pc = "input"
    /\ \E indet \in IndetH : calc_out' = Calculate(calc_p, calc_u, indet)
    /\ calc_pc' = "returned"
    /\ UNCHANGED <<calc_p, calc_u>>

\* The caller drops the result and prepares to call again with the same arguments.
CalcNextCall ==
    /\ calc_pc = "returned"
    /\ calc_out' = NoCall
    /\ calc_pc' = "input"
    /\ UNCHANGED <<calc_p, calc_u>>

\* The caller calls Calculate(p, u) once more with the same arguments and
\* replaces the CorrectionFactors it holds by the new ones.
CalcCalculateAgain ==
    /\ calc_pc = "returned"
    /\ \E indet \in IndetH : calc_out' = Calculate(calc_p, calc_u, indet)
    /\ UNCHANGED <<calc_p, calc_u, calc_pc>>

CalcIdle ==
    /\ calc_p = [flowrate |-> Num(100), total_head |-> Num(100),
                 viscosity |-> Num(100), density |-> Num(0)]
    /\ calc_u = kStandardUnits
    /\ calc_out = NoCall
    /\ calc_pc = "input"

-----------------------------------------------------------------------------
(* Project (project.h, project.cpp). The header names the mutex mtx_, the   *)
(* .cpp names it mux_: one std::shared_mutex, modelled by `writer`.         *)

NumThreads == 2
MaxMutations == 1

Threads == 1..NumThreads
NoThread == 0

FlowrateValues == {Num(5), Num(100)}
InputValues == {Num(50)}
PrecisionValues == {10}
NameValues == {"pump"}

ResultGetters == {"q", "eta", "h", "h_06", "h_08", "h_10", "h_12"}

RefGetters == {"name", "flowrate", "total_head", "viscosity", "density",
               "flowrate_unit", "head_unit", "viscosity_unit", "density_unit"}

Setters == {"Set", "set_flowrate", "set_flowrate_unit", "set_total_head",
            "set_head_unit", "set_viscosity", "set_viscosity_unit", "set_density",
            "set_density_unit", "set_floating_point_precision", "set_name"}

\* impl::CorrectionFactors of bundle_types.h: every member has an initialiser.
ZeroFactors == [q |-> Const(Num(0)), eta |-> Const(Num(0)), h |-> ZeroH, error_flag |-> 0]

\* impl::Calculator::Calculate(ParametersInternal) is declared in
\* spauly/vccore/impl/calculator.h: validate; on an error return the zero-valued
\* factors carrying the flag; else map, intersect and evaluate the curves.
EngineCalculate(c) ==
    LET p == [flowrate |-> c.flowrate_q, total_head |-> c.total_head,
              viscosity |-> c.viscosity_v, density |-> c.density_cp]
        error_flag == ValidateInput(p)
    IN IF error_flag # 0
       THEN [ZeroFactors EXCEPT !.error_flag = error_flag]
       ELSE LET cv == EvaluateCurves(PosMain(p))
            IN [q |-> cv.q, eta |-> cv.eta, h |-> cv.h, error_flag |-> 0]

\* The conversions of CalcImpl: each converted value is written only if its
\* was_changed entry is set.
ConvertChanged(c0, changed, input, unit) ==
    LET c1 == IF changed[1]
              THEN [c0 EXCEPT !.flowrate_q =
                        ConvertFlowrateToBaseUnit(input.flowrate, unit.flowrate)]
              ELSE c0
        c2 == IF changed[2]
              THEN [c1 EXCEPT !.total_head =
                        ConvertHeadToBaseUnit(c1.total_head, unit.total_head)]
              ELSE c1
        c3 == IF changed[3] \/ changed[4]
              THEN LET v == ConvertViscosityTomm2s(c2.viscosity_v, unit.viscosity,
                                                   c2.density_cp, unit.density)
                       d == ConvertDensityToBaseUnit(c2.density_cp, unit.density)
                   IN [c2 EXCEPT !.viscosity_v = v, !.density_cp = d]
              ELSE c2
    IN c3

\* The state CalcImpl leaves: <<converted_input_, res_>>.
CalcImplConverted == ConvertChanged(converted_input_, was_changed_, input_, unit_)

\* CalcImpl: convert what was changed, call the engine, store result and flags.
CalcImpl ==
    /\ converted_input_' = CalcImplConverted
    /\ res_' = EngineCalculate(CalcImplConverted)
    /\ was_computed_' = TRUE
    /\ was_changed_' = [i \in 1..4 |-> FALSE]
    /\ has_error_' = (EngineCalculate(CalcImplConverted).error_flag # 0)
    /\ res_version' = version
    /\ runs' = runs + 1

\* IndicateChange: reset the flags and zero the stored result.
IndicateChange ==
    /\ has_error_' = FALSE
    /\ was_computed_' = FALSE
    /\ res_' = ZeroFactors
    /\ version' = version + 1
    /\ res_version' = -1
    /\ runs' = 0

\* What a result getter hands back from res_.
Project_get(g, r) ==
    CASE g = "q" -> r.q
      [] g = "eta" -> r.eta
      [] g = "h" -> r.h
      [] g = "h_06" -> r.h[1]
      [] g = "h_08" -> r.h[2]
      [] g = "h_10" -> r.h[3]
      [] g = "h_12" -> r.h[4]

\* The std::shared_mutex. A shared (ReadLock) section of this class only reads, and
\* is taken as one step from its lock to its unlock; `writer` is the thread inside
\* an exclusive (WriteLock) section that spans more than one step.
LockFree == writer = NoThread

NoOp == [name |-> "none", inv |-> 0]
NoRet == [method |-> "none", val |-> FALSE, ver |-> 0, inv |-> 0, flag |-> 0]

fields_unchanged == UNCHANGED <<input_, unit_, floating_point_precision_, name_>>
cache_unchanged == UNCHANGED <<was_changed_, was_computed_, has_error_,
                               converted_input_, res_, version, res_version, runs>>

\* ret after a step in which method m returns v: the value, the version of the
\* inputs the returned result was computed from, the version at the invocation.
Returned(m, v, ver, inv, flag) ==
    [method |-> m, val |-> v, ver |-> ver, inv |-> inv, flag |-> flag]

\* ---- result getters: q(), eta(), h(), h_06() ... h_12() ----
\* The seven getters differ in their return expression only; g is the getter the
\* thread is in, and nothing before the return depends on it.

\* ReadLock lock(mux_); if (!was_computed_) GetterCalcWrapper(lock) -> lock.unlock();
\* else return res_.x
GetterCheck(t, g) ==
    /\ pc[t] = "idle"
    /\ LockFree
    /\ IF was_computed_
       THEN /\ ret' = Returned(g, Project_get(g, res_), res_version, version,
                               res_.error_flag)
            /\ UNCHANGED <<pc, op>>
       ELSE /\ ret' = NoRet
            /\ pc' = [pc EXCEPT ![t] = "g_upgrade"]
            /\ op' = [op EXCEPT ![t] = [name |-> "getter", inv |-> version]]
    /\ UNCHANGED writer
    /\ fields_unchanged /\ cache_unchanged

\* GetterCalcWrapper: WriteLock lock2(mux_); bool res = CalcImpl(); lock2.unlock()
GetterCalcImpl(t) ==
    /\ pc[t] = "g_upgrade"
    /\ LockFree
    /\ CalcImpl
    /\ pc' = [pc EXCEPT ![t] = "g_relock"]
    /\ ret' = NoRet
    /\ UNCHANGED <<writer, op, version>>
    /\ fields_unchanged

\* GetterCalcWrapper: lock.lock(); then the getter: return res_.x
GetterReturn(t, g) ==
    /\ pc[t] = "g_relock"
    /\ LockFree
    /\ ret' = Returned(g, Project_get(g, res_), res_version, op[t].inv,
                       res_.error_flag)
    /\ pc' = [pc EXCEPT ![t] = "idle"]
    /\ op' = [op EXCEPT ![t] = NoOp]
    /\ UNCHANGED writer
    /\ fields_unchanged /\ cache_unchanged

\* ---- Calculate() ----

\* WriteLock lock(mux_); if (was_computed_) return has_error_; return CalcImpl();
Calculate_(t) ==
    /\ pc[t] = "idle"
    /\ LockFree
    /\ IF was_computed_
       THEN /\ cache_unchanged
            /\ ret' = Returned("Calculate", has_error_, res_version, version,
                               res_.error_flag)
       ELSE /\ CalcImpl
            /\ version' = version
            /\ ret' = Returned("Calculate", has_error_', res_version', version,
                               res_'.error_flag)
    /\ UNCHANGED <<writer, pc, op>>
    /\ fields_unchanged

\* ---- setters ----

\* WriteLock lock(mux_) of the setter `s`
SetterLock(t, s) ==
    /\ pc[t] = "idle"
    /\ s = "set_name" \/ version < MaxMutations
    /\ LockFree
    /\ writer' = t
    /\ pc' = [pc EXCEPT ![t] = "s_locked"]
    /\ op' = [op EXCEPT ![t] = [name |-> s, inv |-> 0]]
    /\ ret' = NoRet
    /\ fields_unchanged /\ cache_unchanged

\* The end of every setter: the WriteLock is released and the call returns.
SetterReturn(t) ==
    /\ writer' = NoThread
    /\ pc' = [pc EXCEPT ![t] = "idle"]
    /\ op' = [op EXCEPT ![t] = NoOp]
    /\ ret' = Returned(op[t].name, FALSE, 0, 0, 0)

\* A faulty variant of MarkChanged that marks the neighbouring entry; it is used
\* to probe that the invalidation property below depends on the marked index.
MarkChangedNeighbour(i) == was_changed_' = [was_changed_ EXCEPT ![(i % 4) + 1] = TRUE]

\* was_changed_[i] = true (the array index i of the source is i - 1)
MarkChanged(i) == was_changed_' = [was_changed_ EXCEPT ![i] = TRUE]

\* Set(...), called with the default unit arguments
Set(t) ==
    /\ pc[t] = "s_locked" /\ op[t].name = "Set"
    /\ \E f \in FlowrateValues, h \in InputValues, v \in InputValues, d \in InputValues :
          input_' = [flowrate |-> f, total_head |-> h, viscosity |-> v, density |-> d]
    /\ unit_' = kStandardUnits
    /\ was_changed_' = [i \in 1..4 |-> TRUE]
    /\ IndicateChange
    /\ SetterReturn(t)
    /\ UNCHANGED <<floating_point_precision_, name_, converted_input_>>

set_flowrate(t) ==
    /\ pc[t] = "s_locked" /\ op[t].name = "set_flowrate"
    /\ \E v \in FlowrateValues : input_' = [input_ EXCEPT !.flowrate = v]
    /\ IndicateChange
    /\ MarkChanged(1)
    /\ SetterReturn(t)
    /\ UNCHANGED <<unit_, floating_point_precision_, name_, converted_input_>>

set_flowrate_unit(t) ==
    /\ pc[t] = "s_locked" /\ op[t].name = "set_flowrate_unit"
    /\ \E u \in FlowrateUnit : unit_' = [unit_ EXCEPT !.flowrate = u]
    /\ IndicateChange
    /\ MarkChanged(1)
    /\ SetterReturn(t)
    /\ UNCHANGED <<input_, floating_point_precision_, name_, converted_input_>>

set_total_head(t) ==
    /\ pc[t] = "s_locked" /\ op[t].name = "set_total_head"
    /\ \E v \in InputValues : input_' = [input_ EXCEPT !.total_head = v]
    /\ IndicateChange
    /\ MarkChanged(2)
    /\ SetterReturn(t)
    /\ UNCHANGED <<unit_, floating_point_precision_, name_, converted_input_>>

set_head_unit(t) ==
    /\ pc[t] = "s_locked" /\ op[t].name = "set_head_unit"
    /\ \E u \in HeadUnit : unit_' = [unit_ EXCEPT !.total_head = u]
    /\ IndicateChange
    /\ MarkChanged(2)
    /\ SetterReturn(t)
    /\ UNCHANGED <<input_, floating_point_precision_, name_, converted_input_>>

set_viscosity(t) ==
    /\ pc[t] = "s_locked" /\ op[t].name = "set_viscosity"
    /\ \E v \in InputValues : input_' = [input_ EXCEPT !.viscosity = v]
    /\ IndicateChange
    /\ MarkChanged(3)
    /\ SetterReturn(t)
    /\ UNCHANGED <<unit_, floating_point_precision_, name_, converted_input_>>

set_viscosity_unit(t) ==
    /\ pc[t] = "s_locked" /\ op[t].name = "set_viscosity_unit"
    /\ \E u \in ViscosityUnit : unit_' = [unit_ EXCEPT !.viscosity = u]
    /\ IndicateChange
    /\ MarkChanged(3)
    /\ SetterReturn(t)
    /\ UNCHANGED <<input_, floating_point_precision_, name_, converted_input_>>

set_density(t) ==
    /\ pc[t] = "s_locked" /\ op[t].name = "set_density"
    /\ \E v \in InputValues : input_' = [input_ EXCEPT !.density = v]
    /\ IndicateChange
    /\ MarkChanged(4)
    /\ SetterReturn(t)
    /\ UNCHANGED <<unit_, floating_point_precision_, name_, converted_input_>>

set_density_unit(t) ==
    /\ pc[t] = "s_locked" /\ op[t].name = "set_density_unit"
    /\ \E u \in DensityUnit : unit_' = [unit_ EXCEPT !.density = u]
    /\ IndicateChange
    /\ MarkChanged(4)
    /\ SetterReturn(t)
    /\ UNCHANGED <<input_, floating_point_precision_, name_, converted_input_>>

set_floating_point_precision(t) ==
    /\ pc[t] = "s_locked" /\ op[t].name = "set_floating_point_precision"
    /\ \E n \in PrecisionValues : floating_point_precision_' = n
    /\ IndicateChange
    /\ SetterReturn(t)
    /\ UNCHANGED <<input_, unit_, name_, was_changed_, converted_input_>>

set_name(t) ==
    /\ pc[t] = "s_locked" /\ op[t].name = "set_name"
    /\ \E n \in NameValues : name_' = n
    /\ SetterReturn(t)
    /\ UNCHANGED <<input_, unit_, floating_point_precision_>>
    /\ cache_unchanged

\* ---- getters returning a const reference: name(), flowrate(), ... ----

\* The member a reference getter refers to.
Member(f) ==
    CASE f = "name" -> name_
      [] f = "flowrate" -> input_.flowrate
      [] f = "total_head" -> input_.total_head
      [] f = "viscosity" -> input_.viscosity
      [] f = "density" -> input_.density
      [] f = "flowrate_unit" -> unit_.flowrate
      [] f = "head_unit" -> unit_.total_head
      [] f = "viscosity_unit" -> unit_.viscosity
      [] f = "density_unit" -> unit_.density

\* The members a setter assigns.
Assigns(s) ==
    CASE s = "Set" -> RefGetters \ {"name"}
      [] s = "set_flowrate" -> {"flowrate"}
      [] s = "set_flowrate_unit" -> {"flowrate_unit"}
      [] s = "set_total_head" -> {"total_head"}
      [] s = "set_head_unit" -> {"head_unit"}
      [] s = "set_viscosity" -> {"viscosity"}
      [] s = "set_viscosity_unit" -> {"viscosity_unit"}
      [] s = "set_density" -> {"density"}
      [] s = "set_density_unit" -> {"density_unit"}
      [] s = "set_name" -> {"name"}
      [] OTHER -> {}

\* ReadLock lock(mtx_); return member_: the ReadLock is released as the reference
\* is handed out, and the caller then reads the member through it.
RefGetter(t, f) ==
    /\ pc[t] = "idle"
    /\ LockFree
    /\ pc' = [pc EXCEPT ![t] = "r_reading"]
    /\ op' = [op EXCEPT ![t] = [name |-> f, inv |-> 0]]
    /\ ret' = NoRet
    /\ UNCHANGED writer
    /\ fields_unchanged /\ cache_unchanged

\* The caller's read through the reference completes.
RefReadEnd(t) ==
    /\ pc[t] = "r_reading"
    /\ pc' = [pc EXCEPT ![t] = "idle"]
    /\ op' = [op EXCEPT ![t] = NoOp]
    /\ ret' = NoRet
    /\ UNCHANGED writer
    /\ fields_unchanged /\ cache_unchanged

-----------------------------------------------------------------------------
(* Calculator::FitToScale called on its own (calculator.cpp:120-153).       *)

Scale(name) ==
    CASE name = "kFlowrateScale" -> kFlowrateScale
      [] name = "kTotalHeadScale" -> kTotalHeadScale
      [] name = "kViscoScale" -> kViscoScale

ScaleNames == {"kFlowrateScale", "kTotalHeadScale", "kViscoScale"}

\* The start positions Calculate passes: 0, kStartTotalH.at(1), kStartVisco.at(0).
StartPositions == {0, kStartTotalH[2], kStartVisco[1]}

\* How far below a breakpoint the inputs next to it lie.
NearBreakpoint == Frac(1, 2)

\* Inputs of a scale: every breakpoint, the midpoint below every breakpoint, a
\* value just below every breakpoint, one value above the last breakpoint,
\* zero, a negative value and NaN.
FitInputs(name) ==
    LET sc == Scale(name)
        key(i) == IF i = 0 THEN 0 ELSE sc[i][1]
    IN {Num(sc[i][1]) : i \in 1..Len(sc)}
       \cup {Frac(key(i - 1) + key(i), 2) : i \in 1..Len(sc)}
       \cup {Sub(Num(sc[i][1]), NearBreakpoint) : i \in 1..Len(sc)}
       \cup {Num(sc[Len(sc)][1] + 1), Num(0), Num(-1), NaN}

FitInit ==
    /\ fit_scale \in ScaleNames
    /\ fit_input \in FitInputs(fit_scale)
    /\ fit_start \in StartPositions
    /\ fit_out = Num(0)
    /\ fit_pc = "input"

\* A caller invokes FitToScale(raw_scale, input, start_pos).
FitCall ==
    /\ fit_pc = "input"
    /\ fit_out' = FitToScale(Scale(fit_scale), fit_input, fit_start)
    /\ fit_pc' = "returned"
    /\ UNCHANGED <<fit_scale, fit_input, fit_start>>

\* The caller drops the result and prepares to call again with the same arguments.
FitNextCall ==
    /\ fit_pc = "returned"
    /\ fit_out' = Num(0)
    /\ fit_pc' = "input"
    /\ UNCHANGED <<fit_scale, fit_input, fit_start>>

FitIdle ==
    /\ fit_scale = "kFlowrateScale"
    /\ fit_input = Num(100)
    /\ fit_start = 0
    /\ fit_out = Num(0)
    /\ fit_pc = "input"

-----------------------------------------------------------------------------
(* AccuracyType (impl/accuracy_type.h, accuracy_type.cpp), the build with   *)
(* VCCORE_USE_ACCURACY_TYPE. IntType = uint64_t and the uint32_t exponent   *)
(* keep their modular arithmetic at the reduced widths IntBits and ExpBits. *)

IntBits == 18
ExpBits == 4

\* std::numeric_limits<uint64_t>::max()
IntMax == 2^IntBits - 1
\* the modulus of uint32_t arithmetic
ExpMod == 2^ExpBits

\* An AccuracyType object: its data members (input_precision_ keeps its default).
Acc(valid, err, int, exp, neg) ==
    [is_valid_ |-> valid, error_state_ |-> err, int_value_ |-> int, exp_ |-> exp,
     neg_ |-> neg]

\* AccuracyType(): the default member initialisers.
AccDefault == Acc(TRUE, "kNone", 0, 0, FALSE)

\* Invalidate(error_state) applied to any object.
Invalidate(error_state) == Acc(FALSE, error_state, 0, 0, FALSE)

\* A std::string is a sequence of one-character strings.
kDigits == <<"0", "1", "2", "3", "4", "5", "6", "7", "8", "9">>

IsDigit(c) == \E i \in 1..10 : kDigits[i] = c

DigitValue(c) == (CHOOSE i \in 1..10 : kDigits[i] = c) - 1

\* std::string::npos, positions being counted from 1
npos == 0

\* str.find(c)
Find(str, c) ==
    IF \E i \in 1..Len(str) : str[i] = c
    THEN CHOOSE i \in 1..Len(str) : str[i] = c /\ \A j \in 1..(i - 1) : str[j] # c
    ELSE npos

\* str.find_first_not_of(kDigits, from)
FindFirstNotOfDigits(str, from) ==
    LET bad == {i \in from..Len(str) : ~IsDigit(str[i])}
    IN IF bad = {} THEN npos ELSE CHOOSE i \in bad : \A j \in bad : i <= j

\* str.erase(pos, 1)
Erase(str, pos) == SubSeq(str, 1, pos - 1) \o SubSeq(str, pos + 1, Len(str))

\* The value of a string of digits, capped just above IntMax: std::stoull throws
\* std::out_of_range beyond the 64-bit range.
RECURSIVE Stoull(_, _)
Stoull(str, acc) ==
    IF str = <<>> THEN acc
    ELSE IF acc > IntMax THEN acc
    ELSE Stoull(Tail(str), acc * 10 + DigitValue(Head(str)))

\* The start of the match of ([eE][-+]?[0-9]+)$ in str, or npos.
SciMatch(str) ==
    LET ok(i) == /\ str[i] \in {"e", "E"}
                 /\ LET rest == SubSeq(str, i + 1, Len(str))
                        digits == IF rest # <<>> /\ Head(rest) \in {"-", "+"}
                                  THEN Tail(rest) ELSE rest
                    IN digits # <<>> /\ \A j \in 1..Len(digits) : IsDigit(digits[j])
        hits == {i \in 1..Len(str) : ok(i)}
    IN IF hits = {} THEN npos ELSE CHOOSE i \in hits : \A j \in hits : i <= j

\* The conversion of the unsigned long std::stoul returns to int32_t.
ToInt32(v) == ((v + ExpMod \div 2) % ExpMod) - ExpMod \div 2

\* RetrieveExponent(value): value is the match, "e" or "E" first. std::stoul
\* negates (modulo 2^64) the value of a string that starts with "-".
RetrieveExponent(value) ==
    IF Len(value) < 2 THEN 0
    ELSE LET str == Tail(value)
             digits == IF Head(str) \in {"-", "+"} THEN Tail(str) ELSE str
             n == Stoull(digits, 0)
         IN IF Head(str) = "-" THEN ToInt32(-n) ELSE ToInt32(n)

\* A parse that keeps the trailing zeros after the decimal point.
KeepTrailingZeros(str) == str

\* The loop that removes trailing zeros after the decimal point.
RECURSIVE StripTrailingZeros(_)
StripTrailingZeros(str) ==
    IF Len(str) > 0 /\ str[Len(str)] = "0"
    THEN LET cut == SubSeq(str, 1, Len(str) - 1)
         IN IF cut[Len(cut)] = "." THEN cut ELSE StripTrailingZeros(cut)
    ELSE str

\* The loop that removes leading zeros.
RECURSIVE StripLeadingZeros(_)
StripLeadingZeros(str) ==
    IF Len(str) > 0 /\ str[1] = "0" THEN StripLeadingZeros(Tail(str)) ELSE str

\* The end of FromString, from the merge of the scientific exponent on.
FromStringMerge(str, exp, sci_exp, neg) ==
    IF sci_exp > 0 /\ exp <= sci_exp THEN Invalidate("kINFINITY")
    ELSE LET exp2 == IF sci_exp <= 0 THEN (exp - sci_exp) % ExpMod ELSE exp - sci_exp
         IN IF str = <<>> THEN Acc(TRUE, "kNone", 0, exp2, neg)
            ELSE IF Stoull(str, 0) > IntMax THEN Invalidate("kINFINITY")
            ELSE Acc(TRUE, "kNone", Stoull(str, 0), exp2, neg)

\* FromString(value) on a freshly constructed object.
FromString(value) ==
    LET m == SciMatch(value)
        sci_exp == IF m # npos THEN RetrieveExponent(SubSeq(value, m, Len(value))) ELSE 0
        str1 == IF m # npos THEN SubSeq(value, 1, m - 1) ELSE value
        neg == str1 # <<>> /\ str1[1] = "-"
        str2 == IF str1 # <<>> /\ str1[1] \in {"-", "+"} THEN Tail(str1) ELSE str1
        str3 == StripLeadingZeros(str2)
        pos == Find(str3, ".")
    IN IF pos = npos
       THEN IF FindFirstNotOfDigits(str3, 1) # npos THEN Invalidate("kNAN")
            ELSE FromStringMerge(str3, 0, sci_exp, neg)
       ELSE LET str4 == StripTrailingZeros(str3)
            IN IF FindFirstNotOfDigits(str4, 1) # pos
                  \/ FindFirstNotOfDigits(str4, pos + 1) # npos
               THEN Invalidate("kNAN")
               ELSE IF str4 = <<".">> THEN Acc(TRUE, "kNone", 0, 0, neg)
               ELSE FromStringMerge(Erase(str4, pos), Len(str4) - pos, sci_exp, neg)

-----------------------------------------------------------------------------
(* AccuracyType(const std::string&) called on bounded strings.              *)

MaxLen == 5

Alphabet == {"0", "5", ".", "-", "+", "e", "A"}

RECURSIVE Strings(_)
Strings(n) ==
    IF n = 0 THEN {<<>>}
    ELSE Strings(n - 1) \cup {Append(w, c) : w \in Strings(n - 1), c \in Alphabet}

\* Strings of the tests and of the factor tables, longer than MaxLen.
LongStrings ==
    { <<"1", "2", "3", ".", "4", "5", "6">>, <<"0", ".", "2", "2", "7", "1", "2", "5">>,
      <<"1", "2", ".", "2", "3", "4", "5", "6", "e", "2">>,
      <<"-", "6", ".", "5", "e", "-", "0", "6">>, <<"1", "2", "3", ".", "A">>,
      <<"9", "9", "9", "9", "9", "9", "9">>, <<"9", ".", "9", "9", "9", "9", "9", "9">>,
      <<"1", ".", "5", "E", "+", "1">>, <<"1", "5", ".", "2", "5", "e", "2">> }

StrInit ==
    /\ str_in \in Strings(MaxLen) \cup LongStrings
    /\ str_out = AccDefault
    /\ str_pc = "input"

\* AccuracyType(const std::string& value) { FromString(value); }
StrConstruct ==
    /\ str_pc = "input"
    /\ str_out' = FromString(str_in)
    /\ str_pc' = "returned"
    /\ UNCHANGED str_in

\* The constructed object is dropped; the same string will be parsed again.
StrNextCall ==
    /\ str_pc = "returned"
    /\ str_out' = AccDefault
    /\ str_pc' = "input"
    /\ UNCHANGED str_in

StrIdle ==
    /\ str_in = <<"0">>
    /\ str_out = AccDefault
    /\ str_pc = "input"

-----------------------------------------------------------------------------
(* AccuracyType operators.                                                  *)

\* tmp after the loop that truncates it until tmp.int_value_ * other_int fits.
RECURSIVE Truncate(_, _)
Truncate(tmp, other_int) ==
    IF tmp.exp_ > 0 /\ tmp.int_value_ > IntMax \div other_int
    THEN Truncate([tmp EXCEPT !.int_value_ = @ \div 10, !.exp_ = @ - 1], other_int)
    ELSE tmp

\* a after a *= b (a *= a is MulAssign(a, a): tmp is a copy, *this is only
\* written by the final assignment).
MulAssign(a, b) ==
    IF ~a.is_valid_ THEN a
    ELSE IF ~b.is_valid_ THEN Invalidate(b.error_state_)
    ELSE IF a.int_value_ # 0 /\ b.int_value_ > IntMax \div a.int_value_
    THEN LET tmp0 == IF a.exp_ > b.exp_ THEN a ELSE b
             tmp_other == IF a.exp_ > b.exp_ THEN b ELSE a
             tmp == Truncate(tmp0, tmp_other.int_value_)
         IN IF tmp.int_value_ > IntMax \div tmp_other.int_value_
            THEN Invalidate("kINFINITY")
            ELSE [tmp EXCEPT !.int_value_ = @ * tmp_other.int_value_,
                             !.exp_ = (@ + tmp_other.exp_) % ExpMod,
                             !.neg_ = (@ # tmp_other.neg_)]
    ELSE [a EXCEPT !.int_value_ = @ * b.int_value_,
                   !.exp_ = (@ + b.exp_) % ExpMod,
                   !.neg_ = (@ # b.neg_)]

\* operator*(const AccuracyType& acc_t, const AccuracyType& other)
Multiply(acc_t, other) == MulAssign(acc_t, other)

\* operator!=(const AccuracyType& other)
NotEquals(a, b) ==
    IF ~a.is_valid_ \/ ~b.is_valid_ THEN FALSE
    ELSE a.int_value_ # b.int_value_ \/ a.exp_ # b.exp_ \/ a.neg_ # b.neg_

\* operator==(const AccuracyType& other) { return operator!=(other); }
Equals(a, b) == NotEquals(a, b)

\* The default of input_precision_, reduced with the integer width.
InputPrecision == 4

\* The largest d for which std::pow(10, d) is finite (308 for a double).
DoubleMaxPow == 6

\* The value get_double() returns; a magnitude divided by an infinite power
\* of ten is zero.
get_double(a) ==
    IF ~a.is_valid_
    THEN IF a.error_state_ = "kINFINITY" THEN "infinity" ELSE "quiet_NaN"
    ELSE IF a.exp_ > DoubleMaxPow THEN Num(0)
    ELSE IF a.neg_ THEN Frac(-a.int_value_, 10^a.exp_) ELSE Frac(a.int_value_, 10^a.exp_)

\* A finite non-negative double num / (den * 10^shift) is written with
\* std::setprecision(precision) as operator<< writes it (%g): precision
\* significant digits, scientific notation if the decimal exponent X is below
\* -4 or not below precision, trailing zeros removed.

\* <<num * 10^k, k>> for the least k with num * 10^k >= den
RECURSIVE ScaleUp(_, _, _)
ScaleUp(num, den, k) == IF num >= den THEN <<num, k>> ELSE ScaleUp(num * 10, den, k + 1)

\* <<den * 10^j, j>> for the largest j with den * 10^j <= num
RECURSIVE ScaleDown(_, _, _)
ScaleDown(num, den, j) ==
    IF num < den * 10 THEN <<den, j>> ELSE ScaleDown(num, den * 10, j + 1)

\* <<the first count digits of num / den, the remainder times 10>>
RECURSIVE LongDivision(_, _, _, _)
LongDivision(num, den, count, acc) ==
    IF count = 0 THEN <<acc, num>>
    ELSE LongDivision((num % den) * 10, den, count - 1, acc * 10 + num \div den)

\* <<m, X>>: num / den rounded to precision digits is m * 10^(X - precision + 1)
Significand(num, den, precision) ==
    LET up == ScaleUp(num, den, 0)
        down == ScaleDown(up[1], den, 0)
        ld == LongDivision(up[1], down[1], precision, 0)
        m == IF ld[2] \div down[1] >= 5 THEN ld[1] + 1 ELSE ld[1]
        X == down[2] - up[2]
    IN IF m = 10^precision THEN <<10^(precision - 1), X + 1>> ELSE <<m, X>>

RECURSIVE DigitsOf(_, _)
DigitsOf(m, count) ==
    IF count = 0 THEN <<>>
    ELSE Append(DigitsOf(m \div 10, count - 1), kDigits[(m % 10) + 1])

RECURSIVE DropTrailingZeros(_)
DropTrailingZeros(digits) ==
    IF digits # <<>> /\ digits[Len(digits)] = "0"
    THEN DropTrailingZeros(SubSeq(digits, 1, Len(digits) - 1))
    ELSE digits

WithPoint(int, frac) == IF frac = <<>> THEN int ELSE int \o <<".">> \o frac

FormatDouble(num, den, shift, precision) ==
    IF num = 0 THEN <<"0">>
    ELSE LET sg == Significand(num, den, precision)
             X == sg[2] - shift
             digits == DigitsOf(sg[1], precision)
         IN IF X < -4 \/ X >= precision
            THEN WithPoint(<<Head(digits)>>, DropTrailingZeros(Tail(digits)))
                 \o <<"e", IF X < 0 THEN "-" ELSE "+">>
                 \o DigitsOf(Abs(X), IF Abs(X) < 100 THEN 2 ELSE 3)
            ELSE IF X >= 0
            THEN WithPoint(SubSeq(digits, 1, X + 1),
                           DropTrailingZeros(SubSeq(digits, X + 2, precision)))
            ELSE <<"0", ".">> \o [i \in 1..(-X - 1) |-> "0"] \o DropTrailingZeros(digits)

\* FromDouble(value) for the finite non-negative value num / (den * 10^shift);
\* operator=(const double&) and AccuracyType(const double&) leave the same object.
FromDouble(num, den, shift) ==
    LET sstr == FormatDouble(num, den, shift, InputPrecision) IN FromString(sstr)

\* The values an out-of-range conversion to IntType may produce.
UndefinedCasts == {0, 1, IntMax}

\* The values static_cast<IntType>(std::pow(10, d)) may produce: 10^d, or any
\* value where 10^d is outside the range of IntType and the conversion undefined.
RECURSIVE Pow10Casts(_, _)
Pow10Casts(d, acc) ==
    IF acc > IntMax THEN UndefinedCasts
    ELSE IF d = 0 THEN {acc}
    ELSE Pow10Casts(d - 1, acc * 10)

\* operator*(const T& num, const AccuracyType& acc_t) with T = IntType
MultiplyNum(num, acc_t) == MulAssign(FromDouble(num, 1, 0), acc_t)

\* A division that reports a zero divisor as not-a-number.
DivAssignZeroIsNaN(a, b, pow) ==
    IF ~a.is_valid_ \/ ~b.is_valid_ THEN a ELSE Invalidate("kNAN")

\* a after a /= b; pow is the value of the static_cast in the branch that
\* scales a.
DivAssign(a, b, pow) ==
    IF ~a.is_valid_ \/ ~b.is_valid_ THEN a
    ELSE IF b.int_value_ = 0 THEN Invalidate("kINFINITY")
    ELSE LET tmp_neg == (a.neg_ # b.neg_)
             quotient ==
                 IF a.exp_ < b.exp_
                 THEN LET this == MultiplyNum(pow, a)
                      IN FromDouble(this.int_value_, b.int_value_, 0)
                 ELSE IF a.exp_ - b.exp_ > DoubleMaxPow
                 THEN FromDouble(0, 1, 0)
                 ELSE FromDouble(a.int_value_, b.int_value_, a.exp_ - b.exp_)
         IN [quotient EXCEPT !.neg_ = tmp_neg]

\* operator/(const AccuracyType& acc_t, const AccuracyType& other)
Divide(acc_t, other, pow) == DivAssign(acc_t, other, pow)

\* operator!=(const double& other)
NotEqualsDouble(a, other) == IF ~a.is_valid_ THEN FALSE ELSE get_double(a) # other

\* The conversion tables of the VCCORE_USE_ACCURACY_TYPE build.
\* Each table is built once, when the program starts.
FlowrateTable ==
    [u \in FlowrateUnit |->
        CASE u = "kLitersPerMinute" -> FromString(<<"0", ".", "0", "6">>)
          [] u = "kGallonsPerMinute" -> FromString(<<"0", ".", "2", "2", "7", "1", "2", "5">>)
          [] u = "kCubicMetersPerHour" -> FromString(<<"1", ".", "0">>)]

HeadTable ==
    [u \in HeadUnit |->
        CASE u = "kFeet" -> FromString(<<"0", ".", "3", "0", "4", "8">>)
          [] u = "kMeters" -> FromString(<<"1", ".", "0">>)]

DensityTable ==
    [u \in DensityUnit |->
        CASE u = "kGramPerLiter" -> FromString(<<"1", ".", "0">>)
          [] u = "kKilogramsPerCubicMeter" -> FromString(<<"0", ".", "0", "0", "1">>)]

\* kFlowrateToCubicMPH.at(u)
AccFlowrateToCubicMPH(u) == FlowrateTable[u]

\* kHeadToMeters.at(u)
AccHeadToMeters(u) == HeadTable[u]

\* kDensityToGPL.at(u)
AccDensityToGPL(u) == DensityTable[u]

\* A conversion that takes every unit for liters per minute.
ConvertAsLitersPerMinute(value, from) == Multiply(value, AccFlowrateToCubicMPH("kLitersPerMinute"))

\* ConvertToBaseUnit<_Unit>(value, from), _Unit being the type of from.
ConvertToBaseUnit(value, from) ==
    IF from \in FlowrateUnit THEN Multiply(value, AccFlowrateToCubicMPH(from))
    ELSE IF from \in HeadUnit THEN Multiply(value, AccHeadToMeters(from))
    ELSE Multiply(value, AccDensityToGPL(from))

\* ConvertViscosityTomm2s(value, from, density, d_unit) of the
\* VCCORE_USE_ACCURACY_TYPE build; pow is the value of the static_cast in the
\* division.
AccConvertViscosityTomm2s(value, from, density, d_unit, pow) ==
    LET divisor == Multiply(density, AccDensityToGPL(d_unit))
    IN IF from \in {"kcP", "kmPas"}
       THEN IF NotEqualsDouble(density, Num(0))
            THEN Divide(value, divisor, pow)
            ELSE FromString(<<"0", ".", "0">>)
       ELSE value

-----------------------------------------------------------------------------
(* One operator applied to bounded AccuracyType operands.                   *)

ExpMax == ExpMod - 1

Magnitudes == {0, 1, 2, 5, 20, IntMax \div 2 + 1, IntMax}

Exponents == {0, 1, 2, 5, ExpMax - 1, ExpMax}

\* Objects built by AccuracyType(value, exp, neg), and the two invalid ones.
Operands ==
    {Acc(TRUE, "kNone", i, e, n) : i \in Magnitudes, e \in Exponents, n \in BOOLEAN}
        \cup {Invalidate("kNAN"), Invalidate("kINFINITY")}

AccInit ==
    /\ acc_a \in Operands
    /\ acc_b \in Operands
    /\ acc_op = "none"
    /\ acc_unit = "none"
    /\ acc_d_unit = "none"
    /\ acc_out = acc_a
    /\ acc_ret = FALSE

AccRanWith(name, unit, d_unit, out, result) ==
    /\ acc_op = "none"
    /\ acc_op' = name
    /\ acc_unit' = unit
    /\ acc_d_unit' = d_unit
    /\ acc_out' = out
    /\ acc_ret' = result
    /\ UNCHANGED <<acc_a, acc_b>>

AccRan(name, unit, out, result) ==
    /\ acc_op = "none"
    /\ acc_op' = name
    /\ acc_unit' = unit
    /\ acc_d_unit' = "none"
    /\ acc_out' = out
    /\ acc_ret' = result
    /\ UNCHANGED <<acc_a, acc_b>>

\* a *= b
AccMulAssign == AccRan("*=", "none", MulAssign(acc_a, acc_b), FALSE)

\* a *= a
AccMulAssignSelf == AccRan("*= self", "none", MulAssign(acc_a, acc_a), FALSE)

\* The values of the static_cast in a /= b; the branch with exp_ >= other.exp_
\* evaluates none.
CastsIn(a, b) == IF a.exp_ < b.exp_ THEN Pow10Casts(b.exp_ - a.exp_, 1) ELSE {1}

\* a /= b
AccDivAssign ==
    \E pow \in CastsIn(acc_a, acc_b) :
        AccRan("/=", "none", DivAssign(acc_a, acc_b, pow), FALSE)

\* a /= a
AccDivAssignSelf ==
    \E pow \in CastsIn(acc_a, acc_a) :
        AccRan("/= self", "none", DivAssign(acc_a, acc_a, pow), FALSE)

\* a == b
AccEquals == AccRan("==", "none", acc_a, Equals(acc_a, acc_b))

\* a != b
AccNotEquals == AccRan("!=", "none", acc_a, NotEquals(acc_a, acc_b))

\* ConvertToBaseUnit(a, from)
AccConvertToBaseUnit ==
    \E from \in FlowrateUnit \cup HeadUnit \cup DensityUnit :
        AccRan("ConvertToBaseUnit", from, ConvertToBaseUnit(acc_a, from), FALSE)

\* The values and densities ConvertViscosityTomm2s is called with.
ViscosityOperands ==
    {Acc(TRUE, "kNone", i, e, n) : i \in {0, 1, 5, IntMax}, e \in {0, 2, ExpMax},
                                   n \in BOOLEAN}
        \cup {Invalidate("kNAN"), Invalidate("kINFINITY")}

ViscosityInit ==
    /\ acc_a \in ViscosityOperands
    /\ acc_b \in ViscosityOperands
    /\ acc_op = "none"
    /\ acc_unit = "none"
    /\ acc_d_unit = "none"
    /\ acc_out = acc_a
    /\ acc_ret = FALSE

\* ConvertViscosityTomm2s(a, from, b, d_unit): b is the density
AccConvertViscosity ==
    \E from \in ViscosityUnit, d_unit \in DensityUnit :
        \E pow \in LET divisor == Multiply(acc_b, AccDensityToGPL(d_unit))
                   IN CastsIn(acc_a, divisor) :
            AccRanWith("ConvertViscosityTomm2s", from, d_unit,
                       AccConvertViscosityTomm2s(acc_a, from, acc_b, d_unit, pow), FALSE)

\* The operands are as before the operation; another operation follows.
AccNextCall ==
    /\ acc_op # "none"
    /\ acc_op' = "none"
    /\ acc_unit' = "none"
    /\ acc_d_unit' = "none"
    /\ acc_out' = acc_a
    /\ acc_ret' = FALSE
    /\ UNCHANGED <<acc_a, acc_b>>

AccIdle ==
    /\ acc_a = AccDefault
    /\ acc_b = AccDefault
    /\ acc_op = "none"
    /\ acc_unit = "none"
    /\ acc_d_unit = "none"
    /\ acc_out = AccDefault
    /\ acc_ret = FALSE

-----------------------------------------------------------------------------
(* CorrectionContext. ReadCoefficients tests only the first coefficient of  *)
(* each of the six rows (ID 0: q, 1: eta, 2..5: h), so a row is modelled by  *)
(* that coefficient: "zero", "nonzero" or "indet" (never written).          *)

RowIds == 0 .. 5

\* utils/coefficients.csv: whether it can be opened, the first coefficient of
\* every row it holds ("absent": no such row) and whether a malformed line
\* follows the rows, which makes read_row throw.
FullFile == [id \in RowIds |-> "nonzero"]
NoRows == [id \in RowIds |-> "absent"]
MissingFile == [opens |-> FALSE, rows |-> NoRows, throws |-> TRUE]
CoefficientFiles ==
    {MissingFile} \cup
    [opens : {TRUE},
     rows : {FullFile, NoRows}
            \cup {[FullFile EXCEPT ![id] = "absent"] : id \in RowIds}
            \cup {[FullFile EXCEPT ![id] = "zero"] : id \in {0, 5}},
     throws : BOOLEAN]

\* ReadCoefficients(): every row of the file overwrites the stored row of its
\* ID. The result is "throw" if the reader throws, else whether all six first
\* coefficients are non-zero; nonzero is what the test reads from a row that
\* was never written.
StoreRows(coef, file) ==
    IF ~file.opens THEN coef
    ELSE [id \in RowIds |-> IF file.rows[id] = "absent" THEN coef[id]
                            ELSE file.rows[id]]

ReadCoefficients(coef, file, nonzero) ==
    LET stored == StoreRows(coef, file)
    IN IF ~file.opens \/ file.throws
       THEN [coef |-> stored, result |-> "throw"]
       ELSE [coef |-> stored,
             result |-> IF \A id \in RowIds :
                              \/ stored[id] = "nonzero"
                              \/ stored[id] = "indet" /\ nonzero
                        THEN "true" ELSE "false"]

\* CorrectionContext(): is_initialized_(false), error_flag_ = false; the
\* coefficient arrays have no initialiser: indeterminate in automatic storage,
\* zero in static storage.
CtxInit ==
    /\ is_initialized_ = FALSE
    /\ error_flag_ = FALSE
    /\ coefficients_ \in {[id \in RowIds |-> "indet"], [id \in RowIds |-> "zero"]}
    /\ ctx_file = MissingFile
    /\ ctx_read = FALSE
    /\ ctx_ret = "none"

\* bool Initialize(): one call, made while the file is in state file.
Initialize ==
    \E file \in CoefficientFiles, nonzero \in BOOLEAN :
        /\ ctx_file' = file
        /\ IF is_initialized_
           THEN /\ ctx_ret' = "true"
                /\ ctx_read' = FALSE
                /\ UNCHANGED <<is_initialized_, error_flag_, coefficients_>>
           ELSE LET r == ReadCoefficients(coefficients_, file, nonzero)
                IN /\ ctx_read' = TRUE
                   /\ coefficients_' = r.coef
                   /\ IF r.result = "throw"
                      THEN /\ error_flag_' = TRUE
                           /\ is_initialized_' = FALSE
                           /\ ctx_ret' = "false"
                      ELSE /\ is_initialized_' = (r.result = "true")
                           /\ ctx_ret' = r.result
                           /\ UNCHANGED error_flag_

CtxIdle ==
    /\ is_initialized_ = FALSE
    /\ error_flag_ = FALSE
    /\ coefficients_ = [id \in RowIds |-> "zero"]
    /\ ctx_file = MissingFile
    /\ ctx_read = FALSE
    /\ ctx_ret = "none"

-----------------------------------------------------------------------------
(* PolynomialFunc and the functions of math.h called on their own.          *)

\* std::pow(x, n) for the non-negative integral n of the loop; pow(x, 0) = 1
\* for every x, 0 included.
RECURSIVE Pow(_, _)
Pow(x, n) == IF n = 0 THEN Num(1) ELSE Mul(x, Pow(x, n - 1))

\* The polynomial with every coefficient taken in the order of the array from
\* the constant term up.
RECURSIVE PolynomialLowestLoop(_, _, _, _)
PolynomialLowestLoop(coeffs_, x, i, y) ==
    IF i > Len(coeffs_) THEN y
    ELSE PolynomialLowestLoop(coeffs_, x, i + 1,
                              Add(y, Mul(coeffs_[i], Pow(x, i - 1))))

PolynomialLowestFirst(coeffs_, x) == PolynomialLowestLoop(coeffs_, x, 1, Num(0))

\* The loop of PolynomialFunc::operator(): i runs over coeffs_ (1-based here),
\* inverse_iter = coeffs_.size() - i is the power of x that coeffs_[i] takes.
RECURSIVE PolynomialLoop(_, _, _, _)
PolynomialLoop(coeffs_, x, i, y) ==
    IF i > Len(coeffs_) THEN y
    ELSE PolynomialLoop(coeffs_, x, i + 1,
                        Add(y, Mul(coeffs_[i], Pow(x, Len(coeffs_) - i))))

PolynomialFunc(coeffs_, x) == PolynomialLoop(coeffs_, x, 1, Num(0))

Pitches == {Num(0), Num(1), Num(-1), Num(3), Frac(1, 2), Frac(-2, 3)}
PointValues == {Num(0), Num(1), Num(-2), Num(5), Frac(3, 2)}
Arguments == {Num(0), Num(1), Num(2), Num(3), Num(-2), Num(5), Frac(3, 2), Frac(-1, 2)}
CoefficientArrays ==
    {<<Num(1), Num(0), Num(1)>>,
     <<Num(-1), Num(2)>>,
     <<Num(4), Num(7), Num(8), Num(9), Num(10), Num(11)>>,
     <<Frac(1, 2), Num(0), Num(-3), Num(2)>>,
     <<Num(7)>>}

NoPoint == <<Num(0), Num(0)>>

\* A function object is constructed and an argument is chosen.
MathInit ==
    /\ \/ \E m \in Pitches, x \in PointValues, y \in PointValues :
              /\ math_fn = [kind |-> "LinearFunc", coeffs_ |-> LinearFunc(m, x, y)]
              /\ math_point = <<x, y>>
       \/ \E c \in CoefficientArrays :
              /\ math_fn = [kind |-> "PolynomialFunc", coeffs_ |-> c]
              /\ math_point = NoPoint
    /\ math_arg \in Arguments \cup PointValues
    /\ math_op = "none"
    /\ math_out = Num(0)

\* T operator()(T x) of LinearFunc.
MathLinearCall ==
    /\ math_op = "none"
    /\ math_fn.kind = "LinearFunc"
    /\ math_out' = LinearEval(math_fn.coeffs_, math_arg)
    /\ math_op' = "call"
    /\ UNCHANGED <<math_fn, math_point, math_arg>>

\* T SolveForX(const T y) of LinearFunc.
MathSolveForX ==
    /\ math_op = "none"
    /\ math_fn.kind = "LinearFunc"
    /\ math_out' = SolveForX(math_fn.coeffs_, math_arg)
    /\ math_op' = "SolveForX"
    /\ UNCHANGED <<math_fn, math_point, math_arg>>

\* T operator()(T x) of PolynomialFunc.
MathPolynomialCall ==
    /\ math_op = "none"
    /\ math_fn.kind = "PolynomialFunc"
    /\ math_out' = PolynomialFunc(math_fn.coeffs_, math_arg)
    /\ math_op' = "call"
    /\ UNCHANGED <<math_fn, math_point, math_arg>>

\* The caller drops the result and calls the same object again.
MathNextCall ==
    /\ math_op # "none"
    /\ math_op' = "none"
    /\ math_out' = Num(0)
    /\ UNCHANGED <<math_fn, math_point, math_arg>>

MathIdle ==
    /\ math_fn = [kind |-> "PolynomialFunc", coeffs_ |-> <<Num(0)>>]
    /\ math_point = NoPoint
    /\ math_arg = Num(0)
    /\ math_op = "none"
    /\ math_out = Num(0)

-----------------------------------------------------------------------------
(* Two Project objects a and b with copy-assignment between them. Each      *)
(* object is a record of its members; res_src is history: the inputs and    *)
(* units res_ was computed from, <<>> while res_ holds the zeroed result.    *)
(* Every shared or exclusive section of the class that does not wait inside  *)
(* is one step; operator= holds the ReadLock of `other` while it waits for   *)
(* the WriteLock of *this, so the threads at that point are the readers.     *)

Objects == {"a", "b"}

\* What the storage of a never-assigned converted value holds: the default
\* AccuracyType 0, or (AccType = double) an indeterminate double.
IndetConverted == {Num(0), NaN}

ConvertedStorage ==
    {[flowrate_q |-> v, total_head |-> v, viscosity_v |-> v, density_cp |-> v] :
         v \in IndetConverted}

\* Project(ctx, flowrate, 100, 100, 100) with the default units.
NewProject(flowrate, storage) ==
    [input_ |-> [flowrate |-> flowrate, total_head |-> Num(100),
                 viscosity |-> Num(100), density |-> Num(100)],
     unit_ |-> kStandardUnits,
     name_ |-> "",
     was_changed_ |-> [i \in 1..4 |-> TRUE],
     was_computed_ |-> FALSE,
     has_error_ |-> FALSE,
     converted_input_ |-> storage,
     res_ |-> ZeroFactors,
     res_src |-> <<>>]

\* calculator_.Calculate(converted_input_) for every converted input the two
\* objects can hold: a flowrate that was set or never written, and a head,
\* viscosity and density that were never written.
EngineResults ==
    {<<c, EngineCalculate(c)>> :
        c \in [flowrate_q : FlowrateValues \cup IndetConverted,
               total_head : IndetConverted, viscosity_v : IndetConverted,
               density_cp : IndetConverted]}

EngineResult(c) == (CHOOSE pair \in EngineResults : pair[1] = c)[2]

\* CalcImpl() of the object p.
ObjCalcImpl(p) ==
    LET c == ConvertChanged(p.converted_input_, p.was_changed_, p.input_, p.unit_)
        r == EngineResult(c)
    IN [p EXCEPT !.converted_input_ = c,
                 !.res_ = r,
                 !.was_computed_ = TRUE,
                 !.was_changed_ = [i \in 1..4 |-> FALSE],
                 !.has_error_ = (r.error_flag # 0),
                 !.res_src = <<p.input_, p.unit_>>]

\* IndicateChange() of the object p.
ObjIndicateChange(p) ==
    [p EXCEPT !.has_error_ = FALSE,
              !.was_computed_ = FALSE,
              !.res_ = ZeroFactors,
              !.res_src = <<>>]

\* The assignments of operator=(other): name, the four inputs, the four units
\* (ctx_ is the one context every object shares).
ObjAssign(p, other) ==
    [p EXCEPT !.name_ = other.name_, !.input_ = other.input_, !.unit_ = other.unit_]

\* ShowConverted() of p: out is copy-constructed from p, then set to the
\* converted values and the standard units by its own setters.
ShowConverted(p, storage) ==
    LET out == ObjAssign(NewProject(Num(0), storage), p)
        i == out.input_
        u == out.unit_
        f == ConvertFlowrateToBaseUnit(i.flowrate, u.flowrate)
        h == ConvertHeadToBaseUnit(i.total_head, u.total_head)
        v == ConvertViscosityTomm2s(i.viscosity, u.viscosity, i.density, u.density)
        d == ConvertDensityToBaseUnit(i.density, u.density)
    IN [ObjIndicateChange(out) EXCEPT
            !.input_ = [flowrate |-> f, total_head |-> h, viscosity |-> v, density |-> d],
            !.unit_ = kStandardUnits,
            !.was_changed_ = [k \in 1..4 |-> TRUE]]

\* The threads that hold the ReadLock of o while they wait.
Readers(o) == {t \in Threads : cp_pc[t] = "assign_wait" /\ cp_op[t].other = o}

\* WriteLock lock(mux_) of o can be taken.
CanLockExclusive(o) == Readers(o) = {}

CopyNoOp == [name |-> "none", obj |-> "a", other |-> "a"]
CopyNoRet == [method |-> "none", obj |-> "a", val |-> FALSE, src |-> <<>>]

CopyReturned(m, o, v, src) == [method |-> m, obj |-> o, val |-> v, src |-> src]

\* The result getters called: one that returns a double, one the array.
CopyGetters == {"q", "h"}

\* Both objects are constructed in storage of the same kind.
CopyInit ==
    /\ \E c \in ConvertedStorage :
           cp_obj \in [Objects -> {NewProject(f, c) : f \in FlowrateValues}]
    /\ cp_pc = [t \in Threads |-> "idle"]
    /\ cp_op = [t \in Threads |-> CopyNoOp]
    /\ cp_ret = CopyNoRet

\* q(), eta(), h(), ...: ReadLock lock(mux_); if (!was_computed_) the lock is
\* released for GetterCalcWrapper, else return res_.x
CopyGetterCheck(t, o, g) ==
    /\ cp_pc[t] = "idle"
    /\ IF cp_obj[o].was_computed_
       THEN /\ cp_ret' = CopyReturned(g, o, Project_get(g, cp_obj[o].res_),
                                      cp_obj[o].res_src)
            /\ UNCHANGED <<cp_pc, cp_op>>
       ELSE /\ cp_pc' = [cp_pc EXCEPT ![t] = "g_upgrade"]
            /\ cp_op' = [cp_op EXCEPT ![t] = [name |-> g, obj |-> o, other |-> o]]
            /\ cp_ret' = CopyNoRet
    /\ UNCHANGED cp_obj

\* GetterCalcWrapper: WriteLock lock2(mux_); CalcImpl(); lock2.unlock()
CopyGetterCalcImpl(t) ==
    /\ cp_pc[t] = "g_upgrade"
    /\ CanLockExclusive(cp_op[t].obj)
    /\ cp_obj' = [cp_obj EXCEPT ![cp_op[t].obj] = ObjCalcImpl(@)]
    /\ cp_pc' = [cp_pc EXCEPT ![t] = "g_relock"]
    /\ cp_ret' = CopyNoRet
    /\ UNCHANGED cp_op

\* GetterCalcWrapper: lock.lock(); then the getter: return res_.x
CopyGetterReturn(t) ==
    /\ cp_pc[t] = "g_relock"
    /\ LET o == cp_op[t].obj
       IN cp_ret' = CopyReturned(cp_op[t].name, o,
                                 Project_get(cp_op[t].name, cp_obj[o].res_),
                                 cp_obj[o].res_src)
    /\ cp_pc' = [cp_pc EXCEPT ![t] = "idle"]
    /\ cp_op' = [cp_op EXCEPT ![t] = CopyNoOp]
    /\ UNCHANGED cp_obj

\* Calculate(): WriteLock lock(mux_); if (was_computed_) return has_error_;
\* return CalcImpl();
CopyCalculate(t, o) ==
    /\ cp_pc[t] = "idle"
    /\ CanLockExclusive(o)
    /\ LET p == IF cp_obj[o].was_computed_ THEN cp_obj[o] ELSE ObjCalcImpl(cp_obj[o])
       IN /\ cp_obj' = [cp_obj EXCEPT ![o] = p]
          /\ cp_ret' = CopyReturned("Calculate", o, p.has_error_, p.res_src)
    /\ UNCHANGED <<cp_pc, cp_op>>

\* set_flowrate(v): WriteLock lock(mux_); input_flowrate_ = v; IndicateChange();
\* was_changed_[0] = true
CopySetFlowrate(t, o) ==
    /\ cp_pc[t] = "idle"
    /\ CanLockExclusive(o)
    /\ \E v \in FlowrateValues :
          cp_obj' = [cp_obj EXCEPT ![o] =
                        [ObjIndicateChange(@) EXCEPT !.input_.flowrate = v,
                                                     !.was_changed_[1] = TRUE]]
    /\ cp_ret' = CopyReturned("set_flowrate", o, FALSE, <<>>)
    /\ UNCHANGED <<cp_pc, cp_op>>

\* flowrate(): ReadLock lock(mux_); return input_flowrate_
CopyConstGetter(t, o) ==
    /\ cp_pc[t] = "idle"
    /\ cp_ret' = CopyReturned("flowrate", o, cp_obj[o].input_.flowrate, <<>>)
    /\ UNCHANGED <<cp_obj, cp_pc, cp_op>>

\* ShowConverted(): the copy constructor takes the ReadLock of *this and the
\* WriteLock of the new object, which no other thread can reach.
CopyShowConverted(t, o) ==
    /\ cp_pc[t] = "idle"
    /\ \E storage \in ConvertedStorage :
          cp_ret' = CopyReturned("ShowConverted", o, ShowConverted(cp_obj[o], storage), <<>>)
    /\ UNCHANGED <<cp_obj, cp_pc, cp_op>>

\* x = y: ReadLock lock(other.mux_)
CopyAssignReadLock(t, x, y) ==
    /\ cp_pc[t] = "idle"
    /\ cp_pc' = [cp_pc EXCEPT ![t] = "assign_wait"]
    /\ cp_op' = [cp_op EXCEPT ![t] = [name |-> "operator=", obj |-> x, other |-> y]]
    /\ cp_ret' = CopyNoRet
    /\ UNCHANGED cp_obj

\* x = y: WriteLock lock2(mux_); the assignments; both locks are released.
CopyAssignWrite(t) ==
    /\ cp_pc[t] = "assign_wait"
    /\ CanLockExclusive(cp_op[t].obj)
    /\ cp_obj' = [cp_obj EXCEPT ![cp_op[t].obj] = ObjAssign(@, cp_obj[cp_op[t].other])]
    /\ cp_pc' = [cp_pc EXCEPT ![t] = "idle"]
    /\ cp_op' = [cp_op EXCEPT ![t] = CopyNoOp]
    /\ cp_ret' = CopyReturned("operator=", cp_op[t].obj, FALSE, <<>>)

\* Thread t goes one position on with the call it is in: a thread waiting for
\* the exclusive lock of its object goes on when no other thread holds a
\* shared lock of that object.
CopyContinue(t) ==
    /\ cp_pc[t] # "idle"
    /\ cp_pc[t] \in {"g_upgrade", "assign_wait"} => CanLockExclusive(cp_op[t].obj)
    /\ cp_pc' = [cp_pc EXCEPT ![t] = IF @ = "g_upgrade" THEN "g_relock" ELSE "idle"]

CopyIdle ==
    /\ cp_obj = [o \in Objects |->
                    NewProject(Num(100), [flowrate_q |-> Num(0), total_head |-> Num(0),
                                          viscosity_v |-> Num(0), density_cp |-> Num(0)])]
    /\ cp_pc = [t \in Threads |-> "idle"]
    /\ cp_op = [t \in Threads |-> CopyNoOp]
    /\ cp_ret = CopyNoRet

-----------------------------------------------------------------------------
(* Specifications.                                                          *)

\* Project(ctx, 100, 100, 100, 100) with the default units.
ProjInit ==
    /\ input_ = [flowrate |-> Num(100), total_head |-> Num(100),
                 viscosity |-> Num(100), density |-> Num(100)]
    /\ unit_ = kStandardUnits
    /\ floating_point_precision_ = 17
    /\ name_ = ""
    /\ was_changed_ = [i \in 1..4 |-> TRUE]
    /\ was_computed_ = FALSE
    /\ has_error_ = FALSE
    /\ converted_input_ \in [flowrate_q : IndetConverted, total_head : IndetConverted,
                             viscosity_v : IndetConverted, density_cp : IndetConverted]
    /\ res_ = ZeroFactors
    /\ writer = NoThread
    /\ pc = [t \in Threads |-> "idle"]
    /\ op = [t \in Threads |-> NoOp]
    /\ ret = NoRet
    /\ version = 0
    /\ res_version = -1
    /\ runs = 0

ProjIdle ==
    /\ ProjInit
    /\ converted_input_ = [flowrate_q |-> Num(0), total_head |-> Num(0),
                           viscosity_v |-> Num(0), density_cp |-> Num(0)]

InitCalc == CalcInit /\ ProjIdle /\ FitIdle /\ StrIdle /\ AccIdle /\ CtxIdle /\ MathIdle /\ CopyIdle

NextCalc ==
    \/ CalcCalculate /\ UNCHANGED outside_calc
    \/ CalcNextCall /\ UNCHANGED outside_calc

SpecCalc == InitCalc /\ [][NextCalc]_vars

NextCalcTwice ==
    \/ CalcCalculate /\ UNCHANGED outside_calc
    \/ CalcCalculateAgain /\ UNCHANGED outside_calc

\* The repeated calls are made in the standard flowrate, head and density
\* units; the parameters and the viscosity unit range as in SpecCalc.
InitCalcTwice ==
    /\ InitCalc
    /\ calc_u.flowrate = kStandardFlowrateUnit
    /\ calc_u.total_head = kStandardHeadUnit
    /\ calc_u.density = "kGramPerLiter"

SpecCalcTwice == InitCalcTwice /\ [][NextCalcTwice]_vars

InitProject == ProjInit /\ CalcIdle /\ FitIdle /\ StrIdle /\ AccIdle /\ CtxIdle /\ MathIdle /\ CopyIdle

NextProject ==
    \E t \in Threads :
       \/ (\E g \in ResultGetters : GetterCheck(t, g)) /\ UNCHANGED outside_proj
       \/ (GetterCalcImpl(t)) /\ UNCHANGED outside_proj
       \/ (\E g \in ResultGetters : GetterReturn(t, g)) /\ UNCHANGED outside_proj
       \/ (Calculate_(t)) /\ UNCHANGED outside_proj
       \/ (\E s \in Setters : SetterLock(t, s)) /\ UNCHANGED outside_proj
       \/ (Set(t)) /\ UNCHANGED outside_proj
       \/ (set_flowrate(t)) /\ UNCHANGED outside_proj
       \/ (set_flowrate_unit(t)) /\ UNCHANGED outside_proj
       \/ (set_total_head(t)) /\ UNCHANGED outside_proj
       \/ (set_head_unit(t)) /\ UNCHANGED outside_proj
       \/ (set_viscosity(t)) /\ UNCHANGED outside_proj
       \/ (set_viscosity_unit(t)) /\ UNCHANGED outside_proj
       \/ (set_density(t)) /\ UNCHANGED outside_proj
       \/ (set_density_unit(t)) /\ UNCHANGED outside_proj
       \/ (set_floating_point_precision(t)) /\ UNCHANGED outside_proj
       \/ (set_name(t)) /\ UNCHANGED outside_proj
       \/ (\E f \in RefGetters : RefGetter(t, f)) /\ UNCHANGED outside_proj
       \/ (RefReadEnd(t)) /\ UNCHANGED outside_proj

SpecProject == InitProject /\ [][NextProject]_vars

InitFit == FitInit /\ CalcIdle /\ ProjIdle /\ StrIdle /\ AccIdle /\ CtxIdle /\ MathIdle /\ CopyIdle

NextFit ==
    \/ FitCall /\ UNCHANGED outside_fit
    \/ FitNextCall /\ UNCHANGED outside_fit

SpecFit == InitFit /\ [][NextFit]_vars

InitString == StrInit /\ CalcIdle /\ ProjIdle /\ FitIdle /\ AccIdle /\ CtxIdle /\ MathIdle /\ CopyIdle

NextString ==
    \/ StrConstruct /\ UNCHANGED outside_str
    \/ StrNextCall /\ UNCHANGED outside_str

SpecString == InitString /\ [][NextString]_vars

InitAcc == AccInit /\ CalcIdle /\ ProjIdle /\ FitIdle /\ StrIdle /\ CtxIdle /\ MathIdle /\ CopyIdle

NextAcc ==
    \/ AccMulAssign /\ UNCHANGED outside_acc
    \/ AccMulAssignSelf /\ UNCHANGED outside_acc
    \/ AccDivAssign /\ UNCHANGED outside_acc
    \/ AccDivAssignSelf /\ UNCHANGED outside_acc
    \/ AccEquals /\ UNCHANGED outside_acc
    \/ AccNotEquals /\ UNCHANGED outside_acc
    \/ AccConvertToBaseUnit /\ UNCHANGED outside_acc
    \/ AccNextCall /\ UNCHANGED outside_acc

SpecAcc == InitAcc /\ [][NextAcc]_vars

InitContext == CtxInit /\ CalcIdle /\ ProjIdle /\ FitIdle /\ StrIdle /\ AccIdle /\ MathIdle /\ CopyIdle

NextContext ==
    \/ Initialize /\ UNCHANGED outside_ctx

SpecContext == InitContext /\ [][NextContext]_vars

InitMath == MathInit /\ CalcIdle /\ ProjIdle /\ FitIdle /\ StrIdle /\ AccIdle /\ CtxIdle /\ CopyIdle

NextMath ==
    \/ MathLinearCall /\ UNCHANGED outside_math
    \/ MathSolveForX /\ UNCHANGED outside_math
    \/ MathPolynomialCall /\ UNCHANGED outside_math
    \/ MathNextCall /\ UNCHANGED outside_math

SpecMath == InitMath /\ [][NextMath]_vars

InitCopy ==
    /\ CopyInit /\ CalcIdle /\ ProjIdle /\ FitIdle /\ StrIdle /\ AccIdle
    /\ CtxIdle /\ MathIdle

NextCopy ==
    \E t \in Threads :
        \/ \E o \in Objects, g \in CopyGetters :
               CopyGetterCheck(t, o, g) /\ UNCHANGED outside_copy
        \/ CopyGetterCalcImpl(t) /\ UNCHANGED outside_copy
        \/ CopyGetterReturn(t) /\ UNCHANGED outside_copy
        \/ \E o \in Objects : CopyCalculate(t, o) /\ UNCHANGED outside_copy
        \/ \E o \in Objects : CopySetFlowrate(t, o) /\ UNCHANGED outside_copy
        \/ \E o \in Objects : CopyConstGetter(t, o) /\ UNCHANGED outside_copy
        \/ \E o \in Objects : CopyShowConverted(t, o) /\ UNCHANGED outside_copy
        \/ \E x \in Objects, y \in Objects :
               CopyAssignReadLock(t, x, y) /\ UNCHANGED outside_copy
        \/ CopyAssignWrite(t) /\ UNCHANGED outside_copy

SpecCopy == InitCopy /\ [][NextCopy]_vars

\* Fair scheduling: a thread that can again and again go on with its call
\* does go on (the mutex hands a lock to every waiter it can serve).  Under
\* NextCopy the steps of CopyContinue(t) are those of CopyGetterCalcImpl(t),
\* CopyGetterReturn(t) and CopyAssignWrite(t).
SpecCopyFair ==
    /\ InitCopy
    /\ [][NextCopy]_vars
    /\ \A t \in Threads : SF_cp_pc(CopyContinue(t))

InitViscosity == ViscosityInit /\ CalcIdle /\ ProjIdle /\ FitIdle /\ StrIdle /\ CtxIdle /\ MathIdle /\ CopyIdle

NextViscosity ==
    \/ AccConvertViscosity /\ UNCHANGED outside_acc
    \/ AccNextCall /\ UNCHANGED outside_acc

SpecViscosity == InitViscosity /\ [][NextViscosity]_vars


-----------------------------------------------------------------------------
(* Properties of Project, checked under SpecProject.                        *)

\* C1: a result getter never returns a result computed from a superseded input
\* set: the returned value is the engine's result for an input set that was
\* current between the getter's invocation and its return (ver >= inv), and
\* never the zeroed placeholder of IndicateChange (ver = -1).
C1_GetterResultCurrent ==
    ret.method \in ResultGetters => ret.ver >= ret.inv

\* C2: whenever a result is stored, it equals the engine applied to the base-unit
\* conversion of all four current raw inputs with the current units.
C2_ResultFromRawInputs ==
    was_computed_ =>
        res_ = EngineCalculate(
                 [flowrate_q |-> ConvertFlowrateToBaseUnit(input_.flowrate, unit_.flowrate),
                  total_head |-> ConvertHeadToBaseUnit(input_.total_head, unit_.total_head),
                  viscosity_v |-> ConvertViscosityTomm2s(input_.viscosity, unit_.viscosity,
                                                         input_.density, unit_.density),
                  density_cp |-> ConvertDensityToBaseUnit(input_.density, unit_.density)])

\* C3: between two consecutive input mutations (and between construction and the
\* first mutation) CalcImpl runs at most once.
C3_AtMostOneRecompute ==
    runs <= 1

InputSetters == Setters \ {"set_name"}

\* The was_changed_ entry of each single-field setter.
OwnEntry(s) ==
    CASE s \in {"set_flowrate", "set_flowrate_unit"} -> 1
      [] s \in {"set_total_head", "set_head_unit"} -> 2
      [] s \in {"set_viscosity", "set_viscosity_unit"} -> 3
      [] s \in {"set_density", "set_density_unit"} -> 4

\* C4: immediately after a setter of an input field returns, was_computed_ is
\* false, has_error_ is false and the stored result is all zero; and a
\* single-field setter has marked its own was_changed_ entry.
C4_SetterInvalidatesCache ==
    ret.method \in InputSetters =>
        /\ ~was_computed_
        /\ ~has_error_
        /\ res_ = ZeroFactors
        /\ ret.method \notin {"Set", "set_floating_point_precision"} =>
               was_changed_[OwnEntry(ret.method)]

\* C4 happens: set_flowrate has just returned on a project whose result had been
\* computed before (CalcImpl had cleared every was_changed_ entry).
C4_Witness ==
    /\ ret.method = "set_flowrate"
    /\ was_changed_ = [i \in 1..4 |-> i = 1]
    /\ ~was_computed_

\* C5: Calculate() returns false when the engine reports a non-zero error_flag for
\* the inputs.
C5_CalculateFalseIfInvalid ==
    (ret.method = "Calculate" /\ ret.flag # 0) => ret.val = FALSE

\* C6: while a caller reads a member through the const reference a getter
\* returned, no other thread is inside a setter that writes that member.
C6_NoReadDuringWrite ==
    \A t \in Threads, u \in Threads :
        ~(pc[t] = "r_reading" /\ pc[u] = "s_locked" /\ op[t].name \in Assigns(op[u].name))

-----------------------------------------------------------------------------
(* Properties of Calculator, checked under SpecCalc.                        *)

\* lo <= x <= hi
InRange(x, lo, hi) == (Gt(x, lo) \/ Eq(x, lo)) /\ (Lt(x, hi) \/ Eq(x, hi))

\* C7: when validation yields a non-zero error_flag, Calculate returns that flag
\* with q = 0, eta = 0 and all four h entries 0, and no stage after validation
\* has run.
C7_ErrorShortCircuit ==
    (calc_pc = "returned" /\ calc_out.error_flag # 0) =>
        /\ calc_out.q = Const(Num(0))
        /\ calc_out.eta = Const(Num(0))
        /\ calc_out.h = ZeroH
        /\ calc_out.stages = <<"validate">>

\* C8: for parameters that pass validation, Calculate returns error_flag 0, runs
\* the mapping, intersection and curve stages, and q, eta, h are the values of
\* the curve stage.
C8_ValidInputRunsStages ==
    LET p_base == IF calc_u # kStandardUnits THEN GetConverted(calc_p, calc_u) ELSE calc_p
    IN (calc_pc = "returned" /\ ValidateInput(p_base) = 0) =>
          /\ calc_out.error_flag = 0
          /\ calc_out.stages = <<"validate", "map", "intersect", "evaluate">>
          /\ calc_out.q = EvaluateCurves(PosMain(p_base)).q
          /\ calc_out.eta = EvaluateCurves(PosMain(p_base)).eta
          /\ calc_out.h = EvaluateCurves(PosMain(p_base)).h

\* C9: the mask ValidateInput returns is 0 iff flowrate lies in [6, 2000], total
\* head in [5, 200] and viscosity in [10, 4000].
C9_MaskZeroIffInRange ==
    LET p_base == IF calc_u # kStandardUnits THEN GetConverted(calc_p, calc_u) ELSE calc_p
    IN calc_pc = "returned" =>
          (calc_out.error_flag = 0 <=>
              /\ InRange(p_base.flowrate, Num(6), Num(2000))
              /\ InRange(p_base.total_head, Num(5), Num(200))
              /\ InRange(p_base.viscosity, Num(10), Num(4000)))


-----------------------------------------------------------------------------
(* Properties of Calculator::FitToScale, checked under SpecFit.             *)

\* The sum of the pixel distances of the first n breakpoints of a scale.
RECURSIVE SumDist(_, _)
SumDist(sc, n) == IF n = 0 THEN 0 ELSE sc[n][2] + SumDist(sc, n - 1)

\* The reference position of value v on scale sc: k is the first breakpoint
\* that is not below v.
RefFit(sc, v, start) ==
    LET notbelow == {i \in 1..Len(sc) : ~Lt(Num(sc[i][1]), v)}
    IN IF notbelow = {} THEN Num(-1)
       ELSE LET k == CHOOSE i \in notbelow : \A j \in notbelow : i <= j
                prev_k == IF k = 1 THEN 0 ELSE sc[k - 1][1]
                before == Num(start + SumDist(sc, k - 1))
            IN IF Eq(Num(sc[k][1]), v) THEN Add(before, Num(sc[k][2]))
               ELSE Add(before, Mul(Div(Sub(v, Num(prev_k)), Num(sc[k][1] - prev_k)),
                                    Num(sc[k][2])))

\* C11: for a value on a breakpoint, strictly between two breakpoints (0 counting
\* as the breakpoint before the first) or above the last breakpoint, FitToScale
\* returns the position of the reference walk, -1 above the last breakpoint.
C11_FitToScaleReferenceWalk ==
    (fit_pc = "returned" /\ Gt(fit_input, Num(0))) =>
        fit_out = RefFit(Scale(fit_scale), fit_input, fit_start)

\* C11 happens: FitToScale has interpolated 12.5 between the breakpoints 10 and 15
\* of the flowrate scale, from a non-zero start position.
C11_Witness ==
    /\ fit_pc = "returned"
    /\ fit_scale = "kFlowrateScale"
    /\ fit_input = Frac(25, 2)
    /\ fit_start = kStartVisco[1]
    /\ fit_out = Num(105 + 41 + 15)

\* v lies between the smallest and the largest breakpoint of scale sc.
OnScale(sc, v) == InRange(v, Num(sc[1][1]), Num(sc[Len(sc)][1]))

Le(a, b) == Lt(a, b) \/ Eq(a, b)

\* C30: over the validated range of a scale FitToScale is non-decreasing (its
\* result is not above the result of any larger value of the range), every
\* result lies between the start offset and the start offset plus the sum of
\* all pixel distances, and the result for a value strictly between two
\* breakpoints is below the exact-match result of the upper breakpoint k by
\* the share (k - v) / (k - prev) of k's pixel distance, a gap that vanishes
\* as v approaches k.
C30_FitToScaleMonotoneContinuous ==
    LET sc == Scale(fit_scale)
    IN (fit_pc = "returned" /\ OnScale(sc, fit_input)) =>
          /\ Le(Num(fit_start), fit_out)
          /\ Le(fit_out, Num(fit_start + SumDist(sc, Len(sc))))
          /\ \A v2 \in FitInputs(fit_scale) :
                 (OnScale(sc, v2) /\ Le(fit_input, v2)) =>
                     Le(fit_out, FitToScale(sc, v2, fit_start))
          /\ \A k \in 2..Len(sc) :
                 (Lt(Num(sc[k - 1][1]), fit_input) /\ Lt(fit_input, Num(sc[k][1]))) =>
                     Sub(FitToScale(sc, Num(sc[k][1]), fit_start), fit_out)
                       = Mul(Div(Sub(Num(sc[k][1]), fit_input),
                                 Num(sc[k][1] - sc[k - 1][1])),
                             Num(sc[k][2]))

\* C30 happens: FitToScale has placed 199 1/2 on the total head scale, 1/2 below
\* the last breakpoint 200 (distance 13 over a range of 100), from the start
\* offset kStartTotalH.at(1).
C30_Witness ==
    /\ fit_pc = "returned"
    /\ fit_scale = "kTotalHeadScale"
    /\ fit_input = Frac(399, 2)
    /\ fit_start = kStartTotalH[2]
    /\ fit_out = Sub(Num(kStartTotalH[2] + 71), Frac(13, 200))


-----------------------------------------------------------------------------
(* Claims about the string constructor (SpecString).                        *)

\* The string without its leading sign.
Unsigned(str) == IF str # <<>> /\ str[1] \in {"-", "+"} THEN Tail(str) ELSE str

\* [+-]? digits* (. digits*)? with at least one character after the sign.
IsPlainDecimal(str) ==
    LET body == Unsigned(str)
    IN /\ body # <<>>
       /\ \A i \in 1..Len(body) : IsDigit(body[i]) \/ body[i] = "."
       /\ Cardinality({i \in 1..Len(body) : body[i] = "."}) <= 1

IntegerDigits(str) ==
    LET body == Unsigned(str)
    IN SelectSeq(SubSeq(body, 1, IF Find(body, ".") = npos THEN Len(body)
                                 ELSE Find(body, ".") - 1), IsDigit)

\* The digits after the point, up to the last one that is not "0".
FractionDigits(str) ==
    LET body == Unsigned(str)
        frac == IF Find(body, ".") = npos THEN <<>>
                ELSE SubSeq(body, Find(body, ".") + 1, Len(body))
        keep == {i \in 1..Len(frac) : frac[i] # "0"}
    IN SubSeq(frac, 1, IF keep = {} THEN 0 ELSE CHOOSE i \in keep : \A j \in keep : j <= i)

RECURSIVE DecimalValue(_)
DecimalValue(digits) ==
    IF digits = <<>> THEN 0
    ELSE 10 * DecimalValue(SubSeq(digits, 1, Len(digits) - 1))
         + DigitValue(digits[Len(digits)])

SignificantValue(str) == DecimalValue(IntegerDigits(str) \o FractionDigits(str))

\* C18: a scientific exponent is merged into the decimal exponent d of the
\* mantissa: "-e" gives d + e, "+e" gives d - e whenever d - e >= 0, and the
\* value is Infinite only if d - e < 0.
C18_SciExponentMerge ==
    LET m == SciMatch(str_in)
        mantissa == SubSeq(str_in, 1, m - 1)
        rest == SubSeq(str_in, m + 1, Len(str_in))
        e == DecimalValue(Unsigned(rest))
        d == Len(FractionDigits(mantissa))
    IN (/\ str_pc = "returned"
        /\ m # npos
        /\ IsPlainDecimal(mantissa)
        /\ SignificantValue(mantissa) <= IntMax
        /\ d + e < ExpMod \div 2) =>
           IF Head(rest) = "-"
           THEN str_out.is_valid_ /\ str_out.exp_ = d + e
           ELSE /\ d - e >= 0 => str_out.is_valid_ /\ str_out.exp_ = d - e
                /\ d - e < 0 => ~str_out.is_valid_ /\ str_out.error_state_ = "kINFINITY"

\* C19: a string [+-]?digits(.digits)? whose significant digits fit the
\* magnitude parses to a valid value: negative iff it starts with "-", exponent
\* the number of fractional digits left after stripping trailing zeros,
\* magnitude the remaining digits; "0", "0.", ".0", "." and "0.0" have
\* magnitude 0.
C19_PlainDecimalParse ==
    (/\ str_pc = "returned"
     /\ IsPlainDecimal(str_in)
     /\ SignificantValue(str_in) <= IntMax) =>
        /\ str_out.is_valid_
        /\ str_out.neg_ = (str_in[1] = "-")
        /\ str_out.exp_ = Len(FractionDigits(str_in))
        /\ str_out.int_value_ = SignificantValue(str_in)

C19_Witness ==
    /\ str_pc = "returned"
    /\ str_in = <<"-", "0", ".", "5", "0">>
    /\ str_out = Acc(TRUE, "kNone", 5, 1, TRUE)

-----------------------------------------------------------------------------
(* Claims about the AccuracyType operators (SpecAcc).                       *)

\* The right operand of the operation that ran: a itself when aliased.
RightOperand == IF acc_op \in {"*= self", "/= self"} THEN acc_a ELSE acc_b

SameFields(a, b) ==
    a.int_value_ = b.int_value_ /\ a.exp_ = b.exp_ /\ a.neg_ = b.neg_

\* C12: for valid a and b, a == b is true iff magnitude, exponent and sign
\* all agree, and a != b is true iff one of them differs (so exactly one of
\* the two holds, and a == a is true).
C12_EqualityDecides ==
    (acc_a.is_valid_ /\ acc_b.is_valid_) =>
        /\ acc_op = "==" => (acc_ret <=> SameFields(acc_a, acc_b))
        /\ acc_op = "!=" => (acc_ret <=> ~SameFields(acc_a, acc_b))

\* C14: for valid a and b whose magnitude product fits, a *= b (a *= a
\* included) leaves a valid with the product of the magnitudes, the sum of
\* the exponents and the XOR of the signs.
C14_ExactProduct ==
    LET a == acc_a
        b == RightOperand
    IN (/\ acc_op \in {"*=", "*= self"}
        /\ a.is_valid_ /\ b.is_valid_
        /\ (a.int_value_ = 0 \/ b.int_value_ <= IntMax \div a.int_value_)) =>
           /\ acc_out.is_valid_
           /\ acc_out.int_value_ = a.int_value_ * b.int_value_
           /\ acc_out.exp_ = a.exp_ + b.exp_
           /\ acc_out.neg_ = (a.neg_ # b.neg_)

RECURSIVE DropDigits(_, _)
DropDigits(n, k) == IF k = 0 THEN n ELSE DropDigits(n \div 10, k - 1)

\* The result the truncation of big describes: the fewest dropped digits that
\* make the product fit, Infinite if none of 0..big.exp_ does.
TruncatedProduct(big, small) ==
    LET fits == {k \in 0..big.exp_ :
                    DropDigits(big.int_value_, k) <= IntMax \div small.int_value_}
    IN IF fits = {} THEN Invalidate("kINFINITY")
       ELSE LET k == CHOOSE k \in fits : \A j \in fits : k <= j
            IN Acc(TRUE, "kNone", DropDigits(big.int_value_, k) * small.int_value_,
                   big.exp_ - k + small.exp_, big.neg_ # small.neg_)

\* C15: when the magnitude product would overflow, a *= b stores no wrapped
\* magnitude: the operand with the larger exponent is truncated digit by digit
\* until the product fits, the exponent is the truncated exponent plus the
\* other one, the sign the XOR, and the result is Infinite only if the product
\* still overflows with that exponent at zero.
C15_TruncatedProduct ==
    LET a == acc_a
        b == RightOperand
    IN (/\ acc_op \in {"*=", "*= self"}
        /\ a.is_valid_ /\ b.is_valid_
        /\ a.int_value_ # 0 /\ b.int_value_ > IntMax \div a.int_value_) =>
           \/ a.exp_ >= b.exp_ /\ acc_out = TruncatedProduct(a, b)
           \/ b.exp_ >= a.exp_ /\ acc_out = TruncatedProduct(b, a)

\* The factor of each unit as magnitude and exponent.
UnitFactor(u) ==
    CASE u = "kLitersPerMinute" -> Acc(TRUE, "kNone", 6, 2, FALSE)
      [] u = "kGallonsPerMinute" -> Acc(TRUE, "kNone", 227125, 6, FALSE)
      [] u = "kFeet" -> Acc(TRUE, "kNone", 3048, 4, FALSE)
      [] u = "kKilogramsPerCubicMeter" -> Acc(TRUE, "kNone", 1, 3, FALSE)
      [] OTHER -> Acc(TRUE, "kNone", 1, 0, FALSE)

\* C20: ConvertToBaseUnit(v, u) is one multiplication of v by the factor of u
\* (0.06, 0.227125, 0.3048, 0.001, and 1 for the base units); for a valid v and
\* a base unit the result has the magnitude, exponent and sign of v.
C20_ConvertIsOneMultiplication ==
    acc_op = "ConvertToBaseUnit" =>
        /\ acc_out = MulAssign(acc_a, UnitFactor(acc_unit))
        /\ (/\ acc_a.is_valid_
            /\ acc_unit \in {kStandardFlowrateUnit, kStandardHeadUnit, kStandardDensityUnit}) =>
               acc_out.is_valid_ /\ SameFields(acc_out, acc_a)

C20_Witness ==
    /\ acc_op = "ConvertToBaseUnit"
    /\ acc_unit = kStandardFlowrateUnit
    /\ acc_a = Acc(TRUE, "kNone", IntMax, ExpMax, TRUE)
    /\ acc_out = acc_a

\* C13: an invalid operand taints the result: after a *= b or a /= b with a or
\* b invalid, a is invalid.
C13_InvalidOperandTaints ==
    (/\ acc_op \in {"*=", "*= self", "/=", "/= self"}
     /\ (~acc_a.is_valid_ \/ ~RightOperand.is_valid_)) =>
        ~acc_out.is_valid_

\* floor(log10(num / den)) for num, den > 0
DecimalOrder(num, den) ==
    LET up == ScaleUp(num, den, 0) IN ScaleDown(up[1], den, 0)[2] - up[2]

\* C16: a /= b with a non-zero divisor leaves a either Infinite or valid and
\* equal to the quotient up to the rounding of the double: the sign is the XOR
\* of the signs, the value is never off by a power of ten and never a valid
\* zero for a non-zero a.
C16_QuotientOrInfinite ==
    LET a == acc_a
        b == RightOperand
    IN (/\ acc_op \in {"/=", "/= self"}
        /\ a.is_valid_ /\ b.is_valid_
        /\ b.int_value_ # 0) =>
           IF acc_out.is_valid_
           THEN /\ acc_out.neg_ = (a.neg_ # b.neg_)
                /\ (acc_out.int_value_ = 0) = (a.int_value_ = 0)
                /\ a.int_value_ # 0 =>
                      LET quotient == DecimalOrder(a.int_value_, b.int_value_)
                                          + b.exp_ - a.exp_
                          stored == DecimalOrder(acc_out.int_value_, 1) - acc_out.exp_
                      IN stored \in {quotient, quotient + 1}
           ELSE acc_out.error_state_ = "kINFINITY"

\* C17: for a valid a and a valid b of magnitude 0, a /= b leaves a invalid
\* with error state Infinite, and get_double() returns infinity.
C17_DivisionByZeroIsInfinite ==
    (/\ acc_op \in {"/=", "/= self"}
     /\ acc_a.is_valid_ /\ RightOperand.is_valid_
     /\ RightOperand.int_value_ = 0) =>
        /\ ~acc_out.is_valid_
        /\ acc_out.error_state_ = "kINFINITY"
        /\ get_double(acc_out) = "infinity"

C17_Witness ==
    /\ acc_op = "/="
    /\ acc_a = Acc(TRUE, "kNone", 5, 1, FALSE)
    /\ acc_b = Acc(TRUE, "kNone", 0, 2, TRUE)
    /\ acc_out = Invalidate("kINFINITY")

\* C21: ConvertViscosityTomm2s returns the value unchanged for
\* SquareMilPerSecond and Centistokes whatever the density; for Centipoise and
\* MillipascalSeconds it returns value / (density * factor(d_unit)) if the
\* density is not zero, and a valid zero (never Infinite) if it is zero.
C21_ViscosityConversion ==
    LET density_in_base == MulAssign(acc_b, UnitFactor(acc_d_unit))
    IN acc_op = "ConvertViscosityTomm2s" =>
        /\ acc_unit \in {"kSquareMilPerSecond", "kcSt"} => acc_out = acc_a
        /\ (/\ acc_unit \in {"kcP", "kmPas"}
            /\ acc_b.is_valid_ /\ acc_b.int_value_ # 0) =>
               \E pow \in CastsIn(acc_a, density_in_base) :
                   acc_out = DivAssign(acc_a, density_in_base, pow)
        /\ (/\ acc_unit \in {"kcP", "kmPas"}
            /\ acc_b.is_valid_ /\ acc_b.int_value_ = 0) =>
               acc_out.is_valid_ /\ acc_out.int_value_ = 0

-----------------------------------------------------------------------------
(* Claims about repeated calls of Calculator::Calculate (SpecCalcTwice).    *)

\* C22: Calculate is deterministic: a call with the parameters and units of
\* an earlier call returns the same q, eta, h[0..3] and error_flag, the early
\* return for rejected inputs included.
C22_CalculateDeterministic ==
    [][(calc_pc = "returned" /\ calc_pc' = "returned") =>
          /\ calc_out'.q = calc_out.q
          /\ calc_out'.eta = calc_out.eta
          /\ calc_out'.h = calc_out.h
          /\ calc_out'.error_flag = calc_out.error_flag]_vars

-----------------------------------------------------------------------------
(* Claims about CorrectionContext (SpecContext).                            *)

\* C23: a constructed context is uninitialised and error-free; whenever
\* Initialize() returns true the context is initialised and its error flag is
\* false; Initialize() on an initialised context returns true without
\* reading the coefficients again.
C23_InitializeTrueIsClean ==
    /\ ctx_ret = "none" => ~is_initialized_ /\ ~error_flag_
    /\ ctx_ret = "true" => is_initialized_ /\ ~error_flag_
    /\ (ctx_ret = "true" /\ ~ctx_read) => is_initialized_

\* C24: whenever Initialize() returns false, the error flag is set and the
\* context is not initialised, whether the reader threw or the file was read
\* but did not supply all six rows.
C24_InitializeFalseIsError ==
    ctx_ret = "false" => error_flag_ /\ ~is_initialized_

-----------------------------------------------------------------------------
(* Claims about LinearFunc and PolynomialFunc (SpecMath).                   *)

\* C25: a LinearFunc constructed from a pitch m and a point (x0, y0) takes
\* the value y0 at x0; for m # 0 SolveForX undoes the evaluation and the
\* evaluation undoes SolveForX; for m = 0 SolveForX returns 0 for every y.
C25_LinearFuncThroughPoint ==
    math_fn.kind = "LinearFunc" =>
        LET f == math_fn.coeffs_
            m == f[1]
        IN /\ (math_op = "call" /\ math_arg = math_point[1]) =>
                  math_out = math_point[2]
           /\ (math_op = "call" /\ m # Num(0)) => SolveForX(f, math_out) = math_arg
           /\ (math_op = "SolveForX" /\ m # Num(0)) =>
                  LinearEval(f, math_out) = math_arg
           /\ (math_op = "SolveForX" /\ m = Num(0)) => math_out = Num(0)

C25_Witness ==
    /\ math_fn.kind = "LinearFunc"
    /\ math_fn.coeffs_[1] = Frac(-2, 3)
    /\ math_point = <<Num(5), Frac(3, 2)>>
    /\ math_op = "call"
    /\ math_arg = Num(5)
    /\ math_out = Frac(3, 2)

\* Horner's scheme over the coefficients taken from the first to the last:
\* the value of the polynomial whose highest power has the first coefficient.
RECURSIVE Horner(_, _, _, _)
Horner(c, x, i, y) ==
    IF i > Len(c) THEN y ELSE Horner(c, x, i + 1, Add(Mul(y, x), c[i]))

\* C26: PolynomialFunc over c[0..S-1] evaluates to the sum of c[i] * x^(S-1-i):
\* the first coefficient takes the highest power, the last is the constant
\* term and so the value at 0.
C26_PolynomialHighestPowerFirst ==
    (math_fn.kind = "PolynomialFunc" /\ math_op = "call") =>
        LET c == math_fn.coeffs_
        IN /\ math_out = Horner(c, math_arg, 1, Num(0))
           /\ math_arg = Num(0) => math_out = c[Len(c)]

C26_Witness ==
    /\ math_fn.kind = "PolynomialFunc"
    /\ math_fn.coeffs_ = <<Num(4), Num(7), Num(8), Num(9), Num(10), Num(11)>>
    /\ math_op = "call"
    /\ math_arg = Num(3)
    /\ math_out = Num(1877)

-----------------------------------------------------------------------------
(* Claims about the representation of AccuracyType objects (SpecAcc).       *)

\* An invalid object with zeroed fields and an error state, or a valid object
\* whose get_double() is a finite number.
Canonical(o) ==
    IF o.is_valid_ THEN ~IsNaN(get_double(o))
    ELSE /\ o.int_value_ = 0
         /\ o.exp_ = 0
         /\ ~o.neg_
         /\ o.error_state_ \in {"kNAN", "kINFINITY"}

\* C27: every invalid AccuracyType is in the canonical invalid form: after a
\* construction from a string or a double, an assignment, *= or /=, an object
\* that is not valid has magnitude 0, exponent 0, no sign and the error state
\* kNAN or kINFINITY; a valid object has an error-free get_double().
C27_InvalidIsCanonical ==
    /\ Canonical(str_out)
    /\ acc_op \in {"*=", "*= self", "/=", "/= self"} =>
           Canonical(acc_out)

-----------------------------------------------------------------------------
(* Claims about copies of a Project (SpecCopy, SpecCopyFair).               *)

\* The cache of p agrees with its inputs: nothing is computed and every input
\* is marked as changed, or the stored result was computed from the inputs
\* and units p holds now.
CacheConsistent(p) ==
    \/ ~p.was_computed_ /\ \A i \in 1..4 : p.was_changed_[i]
    \/ p.was_computed_ /\ p.res_src = <<p.input_, p.unit_>>

\* C28: after the copy-assignment a = b, and after a copy-construction, the
\* cache of the target is consistent with its new inputs, so that a result
\* getter on it never returns factors computed from its previous inputs.
C28_CopyKeepsCacheConsistent ==
    /\ cp_ret.method = "operator=" => CacheConsistent(cp_obj[cp_ret.obj])
    /\ cp_ret.method = "ShowConverted" => CacheConsistent(cp_ret.val)

\* C29: the locking protocol is deadlock-free: under fair scheduling every
\* call a thread has begun on either Project eventually returns, concurrent
\* a = b and b = a and self-assignment included.
C29_EveryCallReturns ==
    \A t \in Threads : (cp_pc[t] # "idle") ~> (cp_pc[t] = "idle")

=============================================================================
